---- MODULE Spec2Model ----
(***************************************************************************)
(* NeoDepends Python export: the canonicalization and filtering engine of  *)
(* tools/neodepends_python_export.py.                                      *)
(*                                                                         *)
(* The fact base (entities, deps) is produced by the external analysis     *)
(* engine; the exporter reads it, resolves canonical names under one of    *)
(* three naming schemes, applies the architecture alignment filter and     *)
(* assembles the DV8 dependency matrix.                                    *)
(*                                                                         *)
(* Names are modelled as the very strings the Python code builds, so the   *)
(* sort keys parse them the way the code does.                             *)
(***************************************************************************)
EXTENDS Naturals, Integers, Sequences, FiniteSets, TLC

VARIABLES
    per_file,   \* out_path stem -> matrix written by export_dv8_per_file
    run,   \* position, arguments and database files of one run_one pipeline
    fdb,   \* output database of filter_dependencies and the rows it removed
    contents,   \* table contents of the input fact base (read by the filter's copy only)
    walk,   \* call frame of a parent-chain walk that is being stepped
    entities,   \* id -> [parent_id, kind, name]       (table `entities`)
    deps,       \* sequence of <<src, tgt, kind>>       (SELECT src, tgt, kind FROM deps)
    pc,         \* position of the run
    cfg,        \* configuration the export was called with
    kept,       \* dep rows for which the entity-level loop reached full_edges.append
    full_edges, \* the edge list handed to the matrix assembler
    out,        \* the emitted matrix: [variables, cells]
    folders,    \* class-folder map built by the export (structured scheme)
    edges_in    \* edge list given to the assembler when it is run on its own

vars == <<entities, deps, pc, cfg, kept, full_edges, out, folders, edges_in, walk, contents, fdb, run, per_file>>

None == "None"

-----------------------------------------------------------------------------
(* Python string primitives *)

StrLen(s) == Len(s)

StartsWith(s, p) == Len(p) <= Len(s) /\ SubSeq(s, 1, Len(p)) = p

EndsWith(s, p) == Len(p) <= Len(s) /\ SubSeq(s, Len(s) - Len(p) + 1, Len(s)) = p

\* first index at which p occurs in s, 0 when it does not (str.find + 1)
Find(s, p) ==
    LET hits == {i \in 1..(Len(s) - Len(p) + 1) : SubSeq(s, i, i + Len(p) - 1) = p}
    IN  IF Len(p) > Len(s) \/ hits = {} THEN 0
        ELSE CHOOSE i \in hits : \A j \in hits : i <= j

\* last index at which p occurs in s, 0 when it does not (str.rfind + 1)
RFind(s, p) ==
    LET hits == {i \in 1..(Len(s) - Len(p) + 1) : SubSeq(s, i, i + Len(p) - 1) = p}
    IN  IF Len(p) > Len(s) \/ hits = {} THEN 0
        ELSE CHOOSE i \in hits : \A j \in hits : i >= j

Contains(s, p) == Find(s, p) # 0

\* s.split(p, 1)[0] and s.split(p, 1)[1]  (p occurs in s)
SplitHead(s, p) == SubSeq(s, 1, Find(s, p) - 1)
SplitTail(s, p) == SubSeq(s, Find(s, p) + Len(p), Len(s))

\* s.split(p, 1)[0] whether or not p occurs
SplitFirst(s, p) == IF Contains(s, p) THEN SplitHead(s, p) ELSE s

\* s.rsplit(p, 1)[-1]
RSplitLast(s, p) == IF RFind(s, p) = 0 THEN s ELSE SubSeq(s, RFind(s, p) + Len(p), Len(s))

\* s.rsplit(p, 1)[0] when p occurs
RSplitInit(s, p) == SubSeq(s, 1, RFind(s, p) - 1)

RECURSIVE Replace(_, _, _)
Replace(s, p, r) ==
    IF ~Contains(s, p) THEN s
    ELSE SplitHead(s, p) \o r \o Replace(SplitTail(s, p), p, r)

RECURSIVE Join(_, _)
Join(parts, sep) ==
    IF parts = <<>> THEN ""
    ELSE IF Len(parts) = 1 THEN parts[1]
    ELSE parts[1] \o sep \o Join(Tail(parts), sep)

\* The characters of the names, in code-point order; Ord is monotone in the
\* code point, which is all that Python's string comparison reads.
Alphabet == " ()+-./0123456789:<>ABCDEFGHIJKLMNOPQRSTUVWXYZ_abcdefghijklmnopqrstuvwxyz"

Ord(c) == CHOOSE i \in 1..Len(Alphabet) : SubSeq(Alphabet, i, i) = c

\* Python's a < b on str
StrLess(a, b) ==
    LET n    == IF Len(a) < Len(b) THEN Len(a) ELSE Len(b)
        diff == {i \in 1..n : SubSeq(a, i, i) # SubSeq(b, i, i)}
    IN  IF diff = {} THEN Len(a) < Len(b)
        ELSE LET k == CHOOSE i \in diff : \A j \in diff : i <= j
             IN  Ord(SubSeq(a, k, k)) < Ord(SubSeq(b, k, k))

-----------------------------------------------------------------------------
(* Fact base access *)

Has(id) == id \in DOMAIN entities

ConstructorNames == {"__init__", "__new__"}

CoreKinds == {"Import", "Extend", "Create", "Call", "Use"}

\* _ancestor_file_id: walk the parent chain up to the File (the memo only caches)
RECURSIVE AncestorFileId(_)
AncestorFileId(entity_id) ==
    IF ~Has(entity_id) THEN None
    ELSE IF entities[entity_id].kind = "File" THEN entity_id
    ELSE IF entities[entity_id].parent_id = None THEN None
    ELSE AncestorFileId(entities[entity_id].parent_id)

\* file_name_by_id.get(fid): the name of a File entity, None for anything else
FileNameById(fid) ==
    IF Has(fid) /\ entities[fid].kind = "File" THEN entities[fid].name ELSE None

\* `if not file_name` : missing or empty
Falsy(s) == s = None \/ s = ""

\* _ancestor_class_name: name of the nearest Class strictly above the entity
RECURSIVE AncestorClassName(_)
AncestorClassName(entity_id) ==
    IF ~Has(entity_id) \/ entities[entity_id].parent_id = None THEN None
    ELSE LET pid == entities[entity_id].parent_id
         IN  IF Has(pid) /\ entities[pid].kind = "Class" THEN entities[pid].name
             ELSE AncestorClassName(pid)

\* _display_name
DisplayName(entity_id) ==
    LET ent == entities[entity_id]
        cn  == AncestorClassName(entity_id)
    IN  IF ent.kind \in {"Method", "Function", "Field"} /\ ~Falsy(cn)
        THEN cn \o "." \o ent.name
        ELSE ent.name

\* _owner_class_entity: id of the owning Class, None when a File is met first
RECURSIVE OwnerWalk(_)
OwnerWalk(cur) ==
    LET pid == entities[cur].parent_id
    IN  IF pid = None \/ ~Has(pid) THEN None
        ELSE IF entities[pid].kind = "Class" THEN pid
        ELSE IF entities[pid].kind = "File" THEN None
        ELSE OwnerWalk(pid)

OwnerClassEntity(entity_id) ==
    IF ~Has(entity_id) THEN None ELSE OwnerWalk(entity_id)

\* _class_chain_names: the Class names above the entity, outer first, plus the
\* entity's own name when it is a Class, with adjacent duplicates removed
RECURSIVE ChainAbove(_)
ChainAbove(cur) ==
    LET pid == entities[cur].parent_id
    IN  IF pid = None \/ ~Has(pid) THEN <<>>
        ELSE ChainAbove(pid) \o
             (IF entities[pid].kind = "Class" THEN <<entities[pid].name>> ELSE <<>>)

RECURSIVE Dedupe(_)
Dedupe(chain) ==
    IF Len(chain) <= 1 THEN chain
    ELSE LET init == Dedupe(SubSeq(chain, 1, Len(chain) - 1))
             last == chain[Len(chain)]
         IN  IF init[Len(init)] = last THEN init ELSE Append(init, last)

ClassChainNames(entity_id) ==
    IF ~Has(entity_id) THEN <<>>
    ELSE Dedupe(ChainAbove(entity_id) \o
                (IF entities[entity_id].kind = "Class"
                 THEN <<entities[entity_id].name>> ELSE <<>>))

\* _segments_from_class_chain
RECURSIVE SegmentsFromClassChain(_)
SegmentsFromClassChain(chain) ==
    IF chain = <<>> THEN <<>>
    ELSE IF Len(chain) = 1 THEN <<chain[1]>>
    ELSE SegmentsFromClassChain(SubSeq(chain, 1, Len(chain) - 1))
         \o <<"inner_classes", chain[Len(chain)]>>

\* _is_nested_method
RECURSIVE NestedWalk(_, _, _)
NestedWalk(ent_id, cur, seen) ==
    LET pid == entities[cur].parent_id
    IN  IF pid = None \/ ~Has(pid) THEN FALSE
        ELSE IF cur \in seen THEN FALSE
        ELSE IF entities[pid].kind \in {"Method", "Function"}
             THEN IF entities[pid].name = entities[ent_id].name
                  THEN NestedWalk(ent_id, pid, seen \cup {cur})
                  ELSE TRUE
        ELSE IF entities[pid].kind \in {"Class", "File"} THEN FALSE
        ELSE NestedWalk(ent_id, pid, seen \cup {cur})

\* IsNestedMethod testing `ent.kind != "Method"` only: a Function is never nested
IsNestedMethodMethodsOnly(entity_id) ==
    IF ~Has(entity_id) \/ entities[entity_id].kind # "Method"
    THEN FALSE
    ELSE NestedWalk(entity_id, entity_id, {})

IsNestedMethod(entity_id) ==
    IF ~Has(entity_id) \/ entities[entity_id].kind \notin {"Method", "Function"}
    THEN FALSE
    ELSE NestedWalk(entity_id, entity_id, {})

\* in_focus (export_dv8_full_project); include_root_py = focus_prefix is not None
InFocus(c, file_name) ==
    IF c.align /\ EndsWith(file_name, "/__init__.py") THEN FALSE
    ELSE IF c.focus_prefix = None THEN TRUE
    ELSE IF StartsWith(file_name, c.focus_prefix) THEN TRUE
    ELSE IF c.include_root_py /\ ~Contains(file_name, "/") /\ EndsWith(file_name, ".py")
         THEN TRUE
    ELSE FALSE

-----------------------------------------------------------------------------
(* Class-folder builder (structured scheme) *)

Range(f) == {f[x] : x \in DOMAIN f}

\* all orders in which the elements of a finite set can be iterated
Orders(S) == {o \in [1..Cardinality(S) -> S] : Range(o) = S}

\* m[k] = v  on a dict
Put(m, k, v) == [x \in DOMAIN m \cup {k} |-> IF x = k THEN v ELSE m[x]]

\* class_ids: the Class entities of in-focus files (focus = in-focus file names)
FocusClassIds(focus) ==
    {eid \in DOMAIN entities :
        /\ entities[eid].kind = "Class"
        /\ AncestorFileId(eid) # None
        /\ ~Falsy(FileNameById(AncestorFileId(eid)))
        /\ FileNameById(AncestorFileId(eid)) \in focus}

\* file_id_by_class.get(cid)
FileIdByClass(class_ids, cid) ==
    IF cid \in class_ids THEN AncestorFileId(cid) ELSE None

\* local_bases.get(cid) or set(): same-file Extend targets, self-extension skipped
LocalBases(class_ids, dep_rows, cid) ==
    {dep_rows[i][2] : i \in {j \in DOMAIN dep_rows :
        /\ dep_rows[j][3] = "Extend"
        /\ dep_rows[j][1] = cid
        /\ cid \in class_ids
        /\ Has(dep_rows[j][2])
        /\ entities[dep_rows[j][2]].kind = "Class"
        /\ dep_rows[j][1] # dep_rows[j][2]
        /\ FileIdByClass(class_ids, dep_rows[j][2]) # None
        /\ FileIdByClass(class_ids, cid) = FileIdByClass(class_ids, dep_rows[j][2])}}

\* LocalBaseOf with the `len(bases) == 1` test lost: any base is taken
LocalBaseOfAnyBase(class_ids, dep_rows) ==
    [cid \in class_ids |->
        LET bases == LocalBases(class_ids, dep_rows, cid)
        IN  IF bases # {} THEN CHOOSE b \in bases : TRUE ELSE None]

\* local_base_of: the base of each class that has exactly one, None otherwise
LocalBaseOf(class_ids, dep_rows) ==
    [cid \in class_ids |->
        LET bases == LocalBases(class_ids, dep_rows, cid)
        IN  IF Cardinality(bases) = 1 THEN CHOOSE b \in bases : TRUE ELSE None]

\* lexical nesting test of folder_for_class
NestedInClass(class_ids, class_id) ==
    LET parent_id == entities[class_id].parent_id
    IN  /\ parent_id # None
        /\ Has(parent_id)
        /\ entities[parent_id].kind = "Class"
        /\ FileIdByClass(class_ids, parent_id) = FileIdByClass(class_ids, class_id)

\* FolderForClass with the bare name of the `class_id in visiting` branch lost:
\* a class met again while in progress yields an empty path
RECURSIVE FolderForClassEmptyOnReentry(_, _, _, _, _)
FolderForClassEmptyOnReentry(class_ids, local_base_of, class_id, memo, visiting) ==
    IF class_id \in DOMAIN memo THEN [segs |-> memo[class_id], memo |-> memo]
    ELSE IF ~Has(class_id) THEN [segs |-> <<"<unknown>">>, memo |-> memo]
    ELSE IF class_id \in visiting
         THEN [segs |-> <<>>, memo |-> Put(memo, class_id, <<>>)]
    ELSE IF NestedInClass(class_ids, class_id)
         THEN LET r    == FolderForClassEmptyOnReentry(class_ids, local_base_of,
                                         entities[class_id].parent_id,
                                         memo, visiting \cup {class_id})
                  segs == r.segs \o <<"inner_classes", entities[class_id].name>>
              IN  [segs |-> segs, memo |-> Put(r.memo, class_id, segs)]
    ELSE IF class_id \in DOMAIN local_base_of /\ local_base_of[class_id] # None
         THEN LET r    == FolderForClassEmptyOnReentry(class_ids, local_base_of,
                                         local_base_of[class_id],
                                         memo, visiting \cup {class_id})
                  segs == r.segs \o <<"subclasses", entities[class_id].name>>
              IN  [segs |-> segs, memo |-> Put(r.memo, class_id, segs)]
    ELSE [segs |-> <<entities[class_id].name>>,
          memo |-> Put(memo, class_id, <<entities[class_id].name>>)]

\* folder_for_class; `visiting` is restored by every callee before it returns,
\* so it is passed down; the memo is threaded through and returned.
RECURSIVE FolderForClass(_, _, _, _, _)
FolderForClass(class_ids, local_base_of, class_id, memo, visiting) ==
    IF class_id \in DOMAIN memo THEN [segs |-> memo[class_id], memo |-> memo]
    ELSE IF ~Has(class_id) THEN [segs |-> <<"<unknown>">>, memo |-> memo]
    ELSE IF class_id \in visiting
         THEN [segs |-> <<entities[class_id].name>>,
               memo |-> Put(memo, class_id, <<entities[class_id].name>>)]
    ELSE IF NestedInClass(class_ids, class_id)
         THEN LET r    == FolderForClass(class_ids, local_base_of,
                                         entities[class_id].parent_id,
                                         memo, visiting \cup {class_id})
                  segs == r.segs \o <<"inner_classes", entities[class_id].name>>
              IN  [segs |-> segs, memo |-> Put(r.memo, class_id, segs)]
    ELSE IF class_id \in DOMAIN local_base_of /\ local_base_of[class_id] # None
         THEN LET r    == FolderForClass(class_ids, local_base_of,
                                         local_base_of[class_id],
                                         memo, visiting \cup {class_id})
                  segs == r.segs \o <<"subclasses", entities[class_id].name>>
              IN  [segs |-> segs, memo |-> Put(r.memo, class_id, segs)]
    ELSE [segs |-> <<entities[class_id].name>>,
          memo |-> Put(memo, class_id, <<entities[class_id].name>>)]

\* `for cid in class_ids: folder_for_class(cid)` in the given iteration order
RECURSIVE FolderLoop(_, _, _, _)
FolderLoop(class_ids, local_base_of, order, memo) ==
    IF order = <<>> THEN memo
    ELSE FolderLoop(class_ids, local_base_of, Tail(order),
                    FolderForClass(class_ids, local_base_of, Head(order), memo, {}).memo)

\* _build_structured_class_folder_map; focus is the set of in-focus file names,
\* order the iteration order of the set class_ids, which Python does not fix
BuildStructuredClassFolderMap(focus, dep_rows, order) ==
    LET class_ids == FocusClassIds(focus)
    IN  FolderLoop(class_ids, LocalBaseOf(class_ids, dep_rows), order, <<>>)

-----------------------------------------------------------------------------
(* Name resolver *)

\* _handcount_file_node / _structured_file_node / _aligned_file_node
HandcountFileNode(file_name) == file_name \o "/module (Module)"

StructuredFileNode(file_name) == file_name \o "/self (File)"

AlignedFileNode(file_name, dv8_hierarchy) ==
    IF dv8_hierarchy = "handcount" THEN HandcountFileNode(file_name)
    ELSE StructuredFileNode(file_name)

\* the fallback of all three schemes for a kind they do not know
LegacyName(file_name, entity_id) == file_name \o "::" \o DisplayName(entity_id)

\* An optional dict argument left at None is modelled by the empty map: every
\* use of it in the code is guarded by `is not None and key in map` or by the
\* map's truth value, which an empty dict fails in the same way.
NoMap == <<>>

\* StructuredName with the `if not class_segments: return None` of the Field
\* branch lost: a Field without an owning class is filed under its file
StructuredNameFieldUnderFile(entity_id, class_folder_by_id) ==
    LET file_id   == AncestorFileId(entity_id)
        file_name == FileNameById(file_id)
    IN  IF file_id = None \/ Falsy(file_name) THEN None
        ELSE
        LET ent       == entities[entity_id]
            owner_cls == IF ent.kind = "Class" THEN entity_id
                         ELSE OwnerClassEntity(entity_id)
            class_segments ==
                IF owner_cls = None THEN <<>>
                ELSE IF owner_cls \in DOMAIN class_folder_by_id
                     THEN class_folder_by_id[owner_cls]
                ELSE SegmentsFromClassChain(ClassChainNames(owner_cls))
            class_prefix ==
                IF class_segments # <<>>
                THEN file_name \o "/" \o Join(class_segments, "/")
                ELSE file_name
        IN  IF ent.kind = "File" THEN StructuredFileNode(file_name)
            ELSE IF ent.kind = "Class"
                 THEN IF class_segments = <<>> THEN None
                      ELSE class_prefix \o "/self (Class)"
            ELSE IF ent.kind = "Field"
                 THEN class_prefix \o "/fields/" \o ent.name \o " (Field)"
            ELSE IF ent.kind = "Function"
                 THEN file_name \o "/functions/" \o ent.name \o " (Function)"
            ELSE IF ent.kind = "Method"
                 THEN IF class_segments = <<>>
                      THEN file_name \o "/functions/" \o ent.name \o " (Function)"
                      ELSE IF ent.name \in ConstructorNames
                      THEN class_prefix \o "/constructors/" \o ent.name \o " (Constructor)"
                      ELSE class_prefix \o "/methods/" \o ent.name \o " (Method)"
            ELSE LegacyName(file_name, entity_id)

\* _structured_name; class_folder_by_id is NoMap or the class-folder map
StructuredName(entity_id, class_folder_by_id) ==
    LET file_id   == AncestorFileId(entity_id)
        file_name == FileNameById(file_id)
    IN  IF file_id = None \/ Falsy(file_name) THEN None
        ELSE
        LET ent       == entities[entity_id]
            owner_cls == IF ent.kind = "Class" THEN entity_id
                         ELSE OwnerClassEntity(entity_id)
            class_segments ==
                IF owner_cls = None THEN <<>>
                ELSE IF owner_cls \in DOMAIN class_folder_by_id
                     THEN class_folder_by_id[owner_cls]
                ELSE SegmentsFromClassChain(ClassChainNames(owner_cls))
            class_prefix ==
                IF class_segments # <<>>
                THEN file_name \o "/" \o Join(class_segments, "/")
                ELSE file_name
        IN  IF ent.kind = "File" THEN StructuredFileNode(file_name)
            ELSE IF ent.kind = "Class"
                 THEN IF class_segments = <<>> THEN None
                      ELSE class_prefix \o "/self (Class)"
            ELSE IF ent.kind = "Field"
                 THEN IF class_segments = <<>> THEN None
                      ELSE class_prefix \o "/fields/" \o ent.name \o " (Field)"
            ELSE IF ent.kind = "Function"
                 THEN file_name \o "/functions/" \o ent.name \o " (Function)"
            ELSE IF ent.kind = "Method"
                 THEN IF class_segments = <<>>
                      THEN file_name \o "/functions/" \o ent.name \o " (Function)"
                      ELSE IF ent.name \in ConstructorNames
                      THEN class_prefix \o "/constructors/" \o ent.name \o " (Constructor)"
                      ELSE class_prefix \o "/methods/" \o ent.name \o " (Method)"
            ELSE LegacyName(file_name, entity_id)

\* local_bases of _build_local_base_dotted_map (self-extension is not skipped here)
FlatLocalBases(class_ids, dep_rows, cid) ==
    {dep_rows[i][2] : i \in {j \in DOMAIN dep_rows :
        /\ dep_rows[j][3] = "Extend"
        /\ dep_rows[j][1] = cid
        /\ cid \in class_ids
        /\ Has(dep_rows[j][2])
        /\ entities[dep_rows[j][2]].kind = "Class"
        /\ FileIdByClass(class_ids, dep_rows[j][2]) # None
        /\ FileIdByClass(class_ids, cid) = FileIdByClass(class_ids, dep_rows[j][2])}}

\* the dotted name of a class: ".".join(chain) if chain else name
DottedName(class_id) ==
    IF ClassChainNames(class_id) # <<>> THEN Join(ClassChainNames(class_id), ".")
    ELSE entities[class_id].name

\* _build_local_base_dotted_map: derived class id -> dotted name of its one local base
BuildLocalBaseDottedMap(focus, dep_rows) ==
    LET class_ids == FocusClassIds(focus)
        derived   == {cid \in class_ids :
                        Cardinality(FlatLocalBases(class_ids, dep_rows, cid)) = 1}
    IN  [cid \in derived |->
            DottedName(CHOOSE b \in FlatLocalBases(class_ids, dep_rows, cid) : TRUE)]

\* _flat_name; local_base_dotted_by_class_id is NoMap or the map above
FlatName(entity_id, local_base_dotted_by_class_id) ==
    LET file_id   == AncestorFileId(entity_id)
        file_name == FileNameById(file_id)
    IN  IF file_id = None \/ Falsy(file_name) THEN None
        ELSE
        LET ent == entities[entity_id]
            cls == IF ent.kind = "Class" THEN entity_id ELSE OwnerClassEntity(entity_id)
            cls_dotted == IF cls = None THEN None ELSE DottedName(cls)
        IN  IF ent.kind = "File" THEN StructuredFileNode(file_name)
            ELSE IF ent.kind = "Class"
                 THEN IF cls_dotted = None THEN None
                      ELSE IF entity_id \in DOMAIN local_base_dotted_by_class_id
                      THEN file_name \o "/+SUBCLASSES/"
                           \o local_base_dotted_by_class_id[entity_id]
                           \o "/-self " \o cls_dotted \o " (Class)"
                      ELSE file_name \o "/-self " \o cls_dotted \o " (Class)"
            ELSE IF ent.kind = "Field"
                 THEN IF cls_dotted = None THEN None
                      ELSE file_name \o "/+FIELDS/" \o cls_dotted \o "/" \o ent.name \o " (Field)"
            ELSE IF ent.kind = "Method"
                 THEN IF cls_dotted = None
                      THEN file_name \o "/+FUNCTIONS/" \o ent.name \o " (Function)"
                      ELSE IF ent.name \in ConstructorNames
                      THEN file_name \o "/+CONSTRUCTORS/" \o cls_dotted \o "/"
                           \o ent.name \o " (Constructor)"
                      ELSE file_name \o "/+METHODS/" \o cls_dotted \o "/"
                           \o ent.name \o " (Method)"
            ELSE LegacyName(file_name, entity_id)

\* _handcount_name
HandcountName(entity_id) ==
    LET file_id   == AncestorFileId(entity_id)
        file_name == FileNameById(file_id)
    IN  IF file_id = None \/ Falsy(file_name) THEN None
        ELSE
        LET ent == entities[entity_id]
            cls == OwnerClassEntity(entity_id)
            cls_dotted == IF cls # None /\ ClassChainNames(cls) # <<>>
                          THEN Join(ClassChainNames(cls), ".") ELSE None
        IN  IF ent.kind = "File" THEN HandcountFileNode(file_name)
            ELSE IF ent.kind = "Class"
                 THEN IF ClassChainNames(entity_id) = <<>> THEN None
                      ELSE file_name \o "/CLASSES/"
                           \o Join(ClassChainNames(entity_id), ".") \o " (Class)"
            ELSE IF ent.kind = "Field"
                 THEN IF cls = None \/ cls_dotted = None THEN None
                      ELSE file_name \o "/CLASSES/" \o cls_dotted \o "/FIELDS/"
                           \o ent.name \o " (Field)"
            ELSE IF ent.kind = "Method"
                 THEN IF cls = None
                      THEN file_name \o "/FUNCTIONS/" \o ent.name \o " (Function)"
                      ELSE IF cls_dotted = None THEN None
                      ELSE IF ent.name \in ConstructorNames
                      THEN file_name \o "/CLASSES/" \o cls_dotted \o "/CONSTRUCTORS/"
                           \o ent.name \o " (Constructor)"
                      ELSE file_name \o "/CLASSES/" \o cls_dotted \o "/METHODS/"
                           \o ent.name \o " (Method)"
            ELSE LegacyName(file_name, entity_id)

\* _aligned_name
AlignedName(entity_id, dv8_hierarchy, class_folder_by_id, local_base_dotted_by_class_id) ==
    IF dv8_hierarchy = "handcount" THEN HandcountName(entity_id)
    ELSE IF dv8_hierarchy = "flat" THEN FlatName(entity_id, local_base_dotted_by_class_id)
    ELSE StructuredName(entity_id, class_folder_by_id)

-----------------------------------------------------------------------------
(* Deterministic sort keys: <<file_group, file_path, type_rank, class_chain, member_name>> *)

\* the file path shared by the three keys: up to the first ".py/" of the name
KeyFilePath(var) ==
    IF Contains(var, ".py/") THEN SplitHead(var, ".py/") \o ".py" ELSE var

KeyFileGroup(var) == IF Contains(KeyFilePath(var), "/") THEN 0 ELSE 1

\* leaf = var.rsplit("/", 1)[-1]; member_name = leaf.split(" (", 1)[0]
KeyMemberName(var) == SplitFirst(RSplitLast(var, "/"), " (")

ExternalKey(var) == <<9, var, 9, "", var>>

\* _handcount_var_sort_key
HandcountVarSortKey(var) ==
    IF StartsWith(var, "(External ") THEN ExternalKey(var)
    ELSE
    LET type_rank ==
            IF EndsWith(var, "/module (Module)") THEN 0
            ELSE IF Contains(var, "/FUNCTIONS/") THEN 1
            ELSE IF /\ Contains(var, "/CLASSES/") /\ EndsWith(var, " (Class)")
                    /\ ~Contains(var, "/FIELDS/") /\ ~Contains(var, "/METHODS/")
                    /\ ~Contains(var, "/CONSTRUCTORS/") THEN 2
            ELSE IF Contains(var, "/CONSTRUCTORS/") THEN 3
            ELSE IF Contains(var, "/METHODS/") THEN 4
            ELSE IF Contains(var, "/FIELDS/") THEN 5
            ELSE 8
        class_name ==
            IF Contains(var, "/CLASSES/")
            THEN Replace(SplitFirst(SplitTail(var, "/CLASSES/"), "/"), " (Class)", "")
            ELSE ""
    IN  <<KeyFileGroup(var), KeyFilePath(var), type_rank, class_name, KeyMemberName(var)>>

\* _structured_var_sort_key
StructuredVarSortKey(var) ==
    IF StartsWith(var, "(External ") THEN ExternalKey(var)
    ELSE
    LET type_rank ==
            IF EndsWith(var, "/self (File)") THEN 0
            ELSE IF Contains(var, "/functions/") THEN 1
            ELSE IF EndsWith(var, "/self (Class)") THEN 2
            ELSE IF Contains(var, "/constructors/") THEN 3
            ELSE IF Contains(var, "/methods/") THEN 4
            ELSE IF Contains(var, "/fields/") THEN 5
            ELSE 8
        rest == SplitTail(var, ".py/")
        class_chain ==
            IF /\ Contains(var, ".py/")
               /\ SplitFirst(rest, "/") \notin {"functions", "self (File)"}
               /\ Contains(rest, "/")
            THEN RSplitInit(rest, "/")
            ELSE ""
    IN  <<KeyFileGroup(var), KeyFilePath(var), type_rank, class_chain, KeyMemberName(var)>>

\* _flat_var_sort_key
FlatVarSortKey(var) ==
    IF StartsWith(var, "(External ") THEN ExternalKey(var)
    ELSE
    LET type_rank ==
            IF EndsWith(var, "/self (File)") THEN 0
            ELSE IF Contains(var, "/-self ") THEN 1
            ELSE IF Contains(var, "/+CONSTRUCTORS/") THEN 2
            ELSE IF Contains(var, "/+FIELDS/") THEN 3
            ELSE IF Contains(var, "/+METHODS/") THEN 4
            ELSE IF Contains(var, "/+FUNCTIONS/") THEN 5
            ELSE IF Contains(var, "/+SUBCLASSES/") THEN 6
            ELSE 8
        rest == SplitTail(var, ".py/")
        class_chain ==
            IF Contains(var, ".py/") /\ Contains(rest, "/")
            THEN RSplitInit(rest, "/")
            ELSE ""
    IN  <<KeyFileGroup(var), KeyFilePath(var), type_rank, class_chain, KeyMemberName(var)>>

\* _dv8_sort_key_for_hierarchy
SortKeyForHierarchy(dv8_hierarchy, var) ==
    IF dv8_hierarchy = "handcount" THEN HandcountVarSortKey(var)
    ELSE IF dv8_hierarchy = "flat" THEN FlatVarSortKey(var)
    ELSE StructuredVarSortKey(var)

\* Python's < on the key tuples
KeyLess(a, b) ==
    \/ a[1] < b[1]
    \/ a[1] = b[1] /\ StrLess(a[2], b[2])
    \/ a[1] = b[1] /\ a[2] = b[2] /\ a[3] < b[3]
    \/ a[1] = b[1] /\ a[2] = b[2] /\ a[3] = b[3] /\ StrLess(a[4], b[4])
    \/ a[1] = b[1] /\ a[2] = b[2] /\ a[3] = b[3] /\ a[4] = b[4] /\ StrLess(a[5], b[5])

\* Python's < on (src_name, tgt_name, kind)
EdgeLess(a, b) ==
    \/ StrLess(a[1], b[1])
    \/ a[1] = b[1] /\ StrLess(a[2], b[2])
    \/ a[1] = b[1] /\ a[2] = b[2] /\ StrLess(a[3], b[3])

\* Python's < on (src_index, dest_index)
PairLess(a, b) == a[1] < b[1] \/ (a[1] = b[1] /\ a[2] < b[2])

\* sorted(set(edges)): the distinct edges, smallest first
RECURSIVE SortEdgeSet(_)
SortEdgeSet(S) ==
    IF S = {} THEN <<>>
    ELSE LET m == CHOOSE e \in S : \A d \in S : ~EdgeLess(d, e)
         IN  <<m>> \o SortEdgeSet(S \ {m})

SortedSetOfEdges(edges) == SortEdgeSet(Range(edges))

-----------------------------------------------------------------------------
(* Matrix assembler.  Indices are Python's: variables[i] of the code is        *)
(* variables[i + 1] of the sequence here.                                      *)

\* idx[v] once v is in variables
IndexOf(variables, v) == CHOOSE i \in 0..(Len(variables) - 1) : variables[i + 1] = v

\* Ensure with the `if v in idx` test lost: v is appended every time
EnsureAppends(variables, v) == Append(variables, v)

\* ensure(v): append v unless it is there
Ensure(variables, v) ==
    IF \E i \in DOMAIN variables : variables[i] = v THEN variables
    ELSE Append(variables, v)

\* BuildLoop recording presence (values[kind] = 1) where the code counts
RECURSIVE BuildLoopPresence(_, _, _)
BuildLoopPresence(edges, variables, cell_map) ==
    IF edges = <<>> THEN [variables |-> variables, cell_map |-> cell_map]
    ELSE LET e    == Head(edges)
             v1   == Ensure(variables, e[1])
             v2   == Ensure(v1, e[2])
             key  == <<IndexOf(v2, e[1]), IndexOf(v2, e[2])>>
             vals == IF key \in DOMAIN cell_map THEN cell_map[key] ELSE <<>>
         IN  BuildLoopPresence(Tail(edges), v2, Put(cell_map, key, Put(vals, e[3], 1)))

\* the loop `for src, tgt, kind in edges` of _dv8_build_dependency_json
RECURSIVE BuildLoop(_, _, _)
BuildLoop(edges, variables, cell_map) ==
    IF edges = <<>> THEN [variables |-> variables, cell_map |-> cell_map]
    ELSE LET e    == Head(edges)
             v1   == Ensure(variables, e[1])
             v2   == Ensure(v1, e[2])
             key  == <<IndexOf(v2, e[1]), IndexOf(v2, e[2])>>
             vals == IF key \in DOMAIN cell_map THEN cell_map[key] ELSE <<>>
             n    == IF e[3] \in DOMAIN vals THEN vals[e[3]] ELSE 0
         IN  BuildLoop(Tail(edges), v2, Put(cell_map, key, Put(vals, e[3], n + 1)))

\* [{"src": s, "dest": t, "values": vals} for (s, t), vals in sorted(cell_map.items())]
RECURSIVE SortedCellsOf(_, _)
SortedCellsOf(cell_map, K) ==
    IF K = {} THEN <<>>
    ELSE LET k == CHOOSE k \in K : \A j \in K : ~PairLess(j, k)
         IN  <<[src |-> k[1], dest |-> k[2], values |-> cell_map[k]]>>
             \o SortedCellsOf(cell_map, K \ {k})

SortedCells(cell_map) == SortedCellsOf(cell_map, DOMAIN cell_map)

\* _dv8_build_dependency_json (the constant "@schemaVersion" and "name" are left out)
Dv8BuildDependencyJson(edges) ==
    LET r == BuildLoop(edges, <<>>, <<>>)
    IN  [variables |-> r.variables, cells |-> SortedCells(r.cell_map)]

\* the sort keys of the variables, in list order
RECURSIVE SortKeys(_, _)
SortKeys(variables, dv8_hierarchy) ==
    IF variables = <<>> THEN <<>>
    ELSE <<SortKeyForHierarchy(dv8_hierarchy, Head(variables))>>
         \o SortKeys(Tail(variables), dv8_hierarchy)

\* sorted(range(n), key = ...): a stable sort of the indices 1..n by their keys
RECURSIVE InsertIndex(_, _, _)
InsertIndex(sorted, i, keys) ==
    IF sorted = <<>> THEN <<i>>
    ELSE IF KeyLess(keys[i], keys[Head(sorted)]) THEN <<i>> \o sorted
    ELSE <<Head(sorted)>> \o InsertIndex(Tail(sorted), i, keys)

RECURSIVE StableOrderUpTo(_, _)
StableOrderUpTo(keys, n) ==
    IF n = 0 THEN <<>> ELSE InsertIndex(StableOrderUpTo(keys, n - 1), n, keys)

StableOrder(keys) == StableOrderUpTo(keys, Len(keys))

\* new_cells.sort(key = (src, dest)), stable
RECURSIVE InsertCell(_, _)
InsertCell(sorted, cell) ==
    IF sorted = <<>> THEN <<cell>>
    ELSE IF PairLess(<<cell.src, cell.dest>>, <<Head(sorted).src, Head(sorted).dest>>)
         THEN <<cell>> \o sorted
    ELSE <<Head(sorted)>> \o InsertCell(Tail(sorted), cell)

\* StableCells with `new_cells.sort(...)` lost: the remapped cells keep their order
StableCellsUnsorted(cells) == cells

RECURSIVE StableCells(_)
StableCells(cells) ==
    IF cells = <<>> THEN <<>>
    ELSE InsertCell(StableCells(SubSeq(cells, 1, Len(cells) - 1)), cells[Len(cells)])

\* RemapCells with the old_to_new lookup lost: the cells keep their old indices
RemapCellsKeepsIndices(cells, order) == cells

\* the remapped cells, in the order of the input cells
RECURSIVE RemapCells(_, _)
RemapCells(cells, order) ==
    IF cells = <<>> THEN <<>>
    ELSE LET old_to_new(old) == (CHOOSE p \in DOMAIN order : order[p] = old + 1) - 1
         IN  <<[src    |-> old_to_new(Head(cells).src),
                dest   |-> old_to_new(Head(cells).dest),
                values |-> Head(cells).values]>>
             \o RemapCells(Tail(cells), order)

\* [variables[i] for i in order]
RECURSIVE Permuted(_, _)
Permuted(variables, order) ==
    IF order = <<>> THEN <<>>
    ELSE <<variables[Head(order)]>> \o Permuted(variables, Tail(order))

\* _dv8_reorder_dependency_json
Dv8ReorderDependencyJson(obj, dv8_hierarchy) ==
    IF obj.variables = <<>> THEN obj
    ELSE
    LET order == StableOrder(SortKeys(obj.variables, dv8_hierarchy))
    IN  [variables |-> Permuted(obj.variables, order),
         cells     |-> StableCells(RemapCells(obj.cells, order))]

\* Dv8WriteDependencyJson called with sort_key None: the first-seen order is written
Dv8WriteFirstSeenOrder(edges, dv8_hierarchy) == Dv8BuildDependencyJson(edges)

\* _dv8_write_dependency_json with a sort key: what is written to the file
Dv8WriteDependencyJson(edges, dv8_hierarchy) ==
    Dv8ReorderDependencyJson(Dv8BuildDependencyJson(edges), dv8_hierarchy)

-----------------------------------------------------------------------------
(* export_dv8_full_project *)

\* the names of the File entities that in_focus accepts
FocusFileNames(c) ==
    {entities[eid].name : eid \in {x \in DOMAIN entities :
        entities[x].kind = "File" /\ InFocus(c, entities[x].name)}}

\* focus_entity_ids
FocusEntityIds(c) ==
    {eid \in DOMAIN entities :
        /\ entities[eid].kind \in {"File", "Class", "Method", "Function", "Field"}
        /\ AncestorFileId(eid) # None
        /\ ~Falsy(FileNameById(AncestorFileId(eid)))
        /\ InFocus(c, FileNameById(AncestorFileId(eid)))}

\* one iteration of loop (1): the file-level edge a dep row contributes, if any
FileLevelEdge(c, row) ==
    LET src_id == row[1]
        tgt_id == row[2]
        dep_kind == row[3]
        src_file_id == AncestorFileId(src_id)
        tgt_file_id == AncestorFileId(tgt_id)
        src_file_name == FileNameById(src_file_id)
        tgt_file_name == FileNameById(tgt_file_id)
        src_node == AlignedFileNode(src_file_name, c.dv8_hierarchy)
    IN  IF ~Has(src_id) \/ ~Has(tgt_id) THEN <<>>
        ELSE IF c.align /\ dep_kind \notin CoreKinds THEN <<>>
        ELSE IF c.align /\ dep_kind # "Import" THEN <<>>
        ELSE IF src_file_id = None \/ tgt_file_id = None THEN <<>>
        ELSE IF Falsy(src_file_name) \/ Falsy(tgt_file_name) THEN <<>>
        ELSE IF ~InFocus(c, src_file_name) THEN <<>>
        ELSE IF ~c.include_self_edges /\ src_file_id = tgt_file_id THEN <<>>
        ELSE IF InFocus(c, tgt_file_name)
             THEN << <<src_node, AlignedFileNode(tgt_file_name, c.dv8_hierarchy), dep_kind>> >>
        ELSE IF ~c.include_external_target_files THEN <<>>
        ELSE IF c.align THEN <<>>
        ELSE << <<src_node, "(External File) " \o tgt_file_name, dep_kind>> >>

\* AlignKeeps with the Call shape test (Method/Function on both ends) lost
AlignKeepsNoCallShape(row) ==
    LET src_id == row[1]
        tgt_id == row[2]
        dep_kind == row[3]
        src_kind == entities[src_id].kind
        tgt_kind == entities[tgt_id].kind
        MF == {"Method", "Function"}
    IN  /\ dep_kind \in CoreKinds
        /\ ~(src_kind \in MF /\ IsNestedMethod(src_id))
        /\ ~(tgt_kind \in MF /\ IsNestedMethod(tgt_id))
        /\ ~(dep_kind = "Import" /\ ~(src_kind = "File" /\ tgt_kind = "File"))
        /\ ~(dep_kind = "Extend" /\ ~(src_kind = "Class" /\ tgt_kind = "Class"))
        /\ ~(dep_kind = "Create" /\ ~(src_kind \in MF /\ tgt_kind = "Class"))
        /\ ~(dep_kind = "Use" /\ ~(src_kind \in MF /\ tgt_kind = "Field"))
        /\ ~(dep_kind = "Use" /\ OwnerClassEntity(src_id) = None)
        /\ ~(/\ dep_kind = "Call" /\ tgt_kind = "Method"
             /\ entities[tgt_id].name \in ConstructorNames
             /\ (\/ src_kind \notin MF
                 \/ (src_kind = "Method" /\ entities[src_id].name \notin ConstructorNames)))
        /\ ~(src_kind \in MF /\ tgt_kind = "Class" /\ dep_kind # "Create")
        /\ ~(src_kind = "Field" /\ tgt_kind = "Method")
        /\ ~(src_kind = "Class" /\ tgt_kind = "Class" /\ dep_kind = "Use")

\* the alignment filter of loop (2): TRUE when the row passes every `continue`
AlignKeeps(row) ==
    LET src_id == row[1]
        tgt_id == row[2]
        dep_kind == row[3]
        src_kind == entities[src_id].kind
        tgt_kind == entities[tgt_id].kind
        MF == {"Method", "Function"}
    IN  /\ dep_kind \in CoreKinds
        /\ ~(src_kind \in MF /\ IsNestedMethod(src_id))
        /\ ~(tgt_kind \in MF /\ IsNestedMethod(tgt_id))
        /\ ~(dep_kind = "Import" /\ ~(src_kind = "File" /\ tgt_kind = "File"))
        /\ ~(dep_kind = "Extend" /\ ~(src_kind = "Class" /\ tgt_kind = "Class"))
        /\ ~(dep_kind = "Create" /\ ~(src_kind \in MF /\ tgt_kind = "Class"))
        /\ ~(dep_kind = "Call" /\ ~(src_kind \in MF /\ tgt_kind \in MF))
        /\ ~(dep_kind = "Use" /\ ~(src_kind \in MF /\ tgt_kind = "Field"))
        /\ ~(dep_kind = "Use" /\ OwnerClassEntity(src_id) = None)
        /\ ~(/\ dep_kind = "Call" /\ tgt_kind = "Method"
             /\ entities[tgt_id].name \in ConstructorNames
             /\ (\/ src_kind \notin MF
                 \/ (src_kind = "Method" /\ entities[src_id].name \notin ConstructorNames)))
        /\ ~(src_kind \in MF /\ tgt_kind = "Class" /\ dep_kind # "Create")
        /\ ~(src_kind = "Field" /\ tgt_kind = "Method")
        /\ ~(src_kind = "Class" /\ tgt_kind = "Class" /\ dep_kind = "Use")

\* one iteration of loop (2): the entity-level edge a dep row contributes, if any
EntityEdge(c, focus_entity_ids, row, class_folders, local_base_dotted) ==
    LET src_id == row[1]
        tgt_id == row[2]
        dep_kind == row[3]
        \* `if align_handcount: include_external_targets = False`
        include_external_targets == IF c.align THEN FALSE ELSE c.include_external_targets
        src_name == AlignedName(src_id, c.dv8_hierarchy, class_folders, local_base_dotted)
        tgt_name ==
            IF tgt_id \in focus_entity_ids
            THEN AlignedName(tgt_id, c.dv8_hierarchy, class_folders, local_base_dotted)
            ELSE "(External " \o entities[tgt_id].kind \o ") " \o DisplayName(tgt_id)
    IN  IF src_id \notin focus_entity_ids THEN <<>>
        ELSE IF ~Has(tgt_id) THEN <<>>
        ELSE IF c.align /\ ~AlignKeeps(row) THEN <<>>
        ELSE IF Falsy(src_name) THEN <<>>
        ELSE IF tgt_id \in focus_entity_ids /\ Falsy(tgt_name) THEN <<>>
        ELSE IF tgt_id \notin focus_entity_ids /\ ~include_external_targets THEN <<>>
        ELSE << <<src_name, tgt_name, dep_kind>> >>

RECURSIVE FileLevelEdges(_, _)
FileLevelEdges(c, dep_rows) ==
    IF dep_rows = <<>> THEN <<>>
    ELSE FileLevelEdge(c, Head(dep_rows)) \o FileLevelEdges(c, Tail(dep_rows))

RECURSIVE EntityEdges(_, _, _, _, _)
EntityEdges(c, focus_entity_ids, dep_rows, class_folders, local_base_dotted) ==
    IF dep_rows = <<>> THEN <<>>
    ELSE EntityEdge(c, focus_entity_ids, Head(dep_rows), class_folders, local_base_dotted)
         \o EntityEdges(c, focus_entity_ids, Tail(dep_rows), class_folders,
                        local_base_dotted)

\* structured_class_folders as export_dv8_full_project builds it
FullProjectClassFolders(c, order) ==
    IF c.dv8_hierarchy = "structured"
    THEN BuildStructuredClassFolderMap(FocusFileNames(c), deps, order)
    ELSE NoMap

\* local_base_dotted_by_class_id as export_dv8_full_project builds it
FullProjectLocalBaseDotted(c) ==
    IF c.dv8_hierarchy = "flat"
    THEN BuildLocalBaseDottedMap(FocusFileNames(c), deps)
    ELSE NoMap

\* FullEdges with `sorted(set(full_edges))` lost: duplicates stay
FullEdgesKeepsDuplicates(c, class_folders, local_base_dotted) ==
    FileLevelEdges(c, deps)
    \o EntityEdges(c, FocusEntityIds(c), deps, class_folders, local_base_dotted)

\* full_edges as handed to _dv8_write_dependency_json
FullEdges(c, class_folders, local_base_dotted) ==
    LET focus_entity_ids == FocusEntityIds(c)
        all == FileLevelEdges(c, deps)
               \o EntityEdges(c, focus_entity_ids, deps, class_folders, local_base_dotted)
    IN  IF c.align THEN SortedSetOfEdges(all) ELSE all

\* export_dv8_full_project as a function of the rows `SELECT src, tgt, kind FROM deps`
\* returns: the matrix written for dep_rows
FullProjectMatrix(c, dep_rows, order) ==
    LET class_folders == IF c.dv8_hierarchy = "structured"
                         THEN BuildStructuredClassFolderMap(FocusFileNames(c), dep_rows, order)
                         ELSE NoMap
        local_base    == IF c.dv8_hierarchy = "flat"
                         THEN BuildLocalBaseDottedMap(FocusFileNames(c), dep_rows)
                         ELSE NoMap
        all == FileLevelEdges(c, dep_rows)
               \o EntityEdges(c, FocusEntityIds(c), dep_rows, class_folders, local_base)
    IN  Dv8WriteDependencyJson(IF c.align THEN SortedSetOfEdges(all) ELSE all,
                               c.dv8_hierarchy)

\* the dep rows that reach full_edges.append in loop (2)
KeptRows(c, class_folders, local_base_dotted) ==
    LET focus_entity_ids == FocusEntityIds(c)
    IN  SelectSeq(deps, LAMBDA row :
            EntityEdge(c, focus_entity_ids, row, class_folders, local_base_dotted) # <<>>)

-----------------------------------------------------------------------------
(* export_dv8_file_level *)

\* sorted(names)
RECURSIVE SortStrings(_)
SortStrings(S) ==
    IF S = {} THEN <<>>
    ELSE LET m == CHOOSE x \in S : \A y \in S : ~StrLess(y, x)
         IN  <<m>> \o SortStrings(S \ {m})

\* focus_file_names = pkg_files + root_files
FocusFileList(c) ==
    LET focus_all == FocusFileNames(c)
    IN  SortStrings({n \in focus_all : Contains(n, "/")})
        \o SortStrings({n \in focus_all : ~Contains(n, "/")})

\* one iteration of the first loop over dep_rows
FileExportEdge(c, row) ==
    LET src_id == row[1]
        tgt_id == row[2]
        dep_kind == row[3]
        src_file_id == AncestorFileId(src_id)
        tgt_file_id == AncestorFileId(tgt_id)
        src_file_name == FileNameById(src_file_id)
        tgt_file_name == FileNameById(tgt_file_id)
        src_node == AlignedFileNode(src_file_name, c.dv8_hierarchy)
    IN  IF ~Has(src_id) \/ ~Has(tgt_id) THEN <<>>
        ELSE IF src_file_id = None \/ tgt_file_id = None THEN <<>>
        ELSE IF Falsy(src_file_name) \/ Falsy(tgt_file_name) THEN <<>>
        ELSE IF ~InFocus(c, src_file_name) THEN <<>>
        ELSE IF ~c.include_self_edges /\ src_file_id = tgt_file_id THEN <<>>
        ELSE IF InFocus(c, tgt_file_name)
             THEN IF c.align /\ dep_kind # "Import" THEN <<>>
                  ELSE << <<src_node, AlignedFileNode(tgt_file_name, c.dv8_hierarchy),
                            dep_kind>> >>
        ELSE IF ~c.include_external_target_files THEN <<>>
        ELSE IF c.align THEN <<>>
        ELSE << <<src_node, "(External File) " \o tgt_file_name, dep_kind>> >>

\* one iteration of the fallback loop taken when aligned and no edge was found
FileFallbackEdge(c, row) ==
    LET src_id == row[1]
        tgt_id == row[2]
        dep_kind == row[3]
        src_file_id == AncestorFileId(src_id)
        tgt_file_id == AncestorFileId(tgt_id)
        src_file_name == FileNameById(src_file_id)
        tgt_file_name == FileNameById(tgt_file_id)
    IN  IF dep_kind \notin CoreKinds THEN <<>>
        ELSE IF ~Has(src_id) \/ ~Has(tgt_id) THEN <<>>
        ELSE IF src_file_id = None \/ tgt_file_id = None THEN <<>>
        ELSE IF ~c.include_self_edges /\ src_file_id = tgt_file_id THEN <<>>
        ELSE IF Falsy(src_file_name) \/ Falsy(tgt_file_name) THEN <<>>
        ELSE IF ~InFocus(c, src_file_name) \/ ~InFocus(c, tgt_file_name) THEN <<>>
        ELSE << <<AlignedFileNode(src_file_name, c.dv8_hierarchy),
                  AlignedFileNode(tgt_file_name, c.dv8_hierarchy), dep_kind>> >>

RECURSIVE FileExportEdges(_, _)
FileExportEdges(c, dep_rows) ==
    IF dep_rows = <<>> THEN <<>>
    ELSE FileExportEdge(c, Head(dep_rows)) \o FileExportEdges(c, Tail(dep_rows))

RECURSIVE FileFallbackEdges(_, _)
FileFallbackEdges(c, dep_rows) ==
    IF dep_rows = <<>> THEN <<>>
    ELSE FileFallbackEdge(c, Head(dep_rows)) \o FileFallbackEdges(c, Tail(dep_rows))

\* `edges` as the file-level export hands it to the assembly
FileEdges(c) ==
    LET first == FileExportEdges(c, deps)
        all   == IF c.align /\ first = <<>> THEN FileFallbackEdges(c, deps) ELSE first
    IN  IF c.align THEN SortedSetOfEdges(all) ELSE all

\* the loop `for s, t, k in edges` of the aligned branch: variables are fixed
RECURSIVE FileCellLoop(_, _, _)
FileCellLoop(edges, variables, cell_map) ==
    IF edges = <<>> THEN cell_map
    ELSE LET e == Head(edges)
             known(v) == \E i \in DOMAIN variables : variables[i] = v
         IN  IF ~known(e[1]) \/ ~known(e[2])
             THEN FileCellLoop(Tail(edges), variables, cell_map)
             ELSE LET key  == <<IndexOf(variables, e[1]), IndexOf(variables, e[2])>>
                      vals == IF key \in DOMAIN cell_map THEN cell_map[key] ELSE <<>>
                      n    == IF e[3] \in DOMAIN vals THEN vals[e[3]] ELSE 0
                  IN  FileCellLoop(Tail(edges), variables,
                                   Put(cell_map, key, Put(vals, e[3], n + 1)))

RECURSIVE FileNodes(_, _)
FileNodes(names, dv8_hierarchy) ==
    IF names = <<>> THEN <<>>
    ELSE <<AlignedFileNode(Head(names), dv8_hierarchy)>>
         \o FileNodes(Tail(names), dv8_hierarchy)

\* the matrix export_dv8_file_level writes
FileLevelMatrix(c, edges) ==
    IF c.align
    THEN LET variables == FileNodes(FocusFileList(c), c.dv8_hierarchy)
         IN  [variables |-> variables,
              cells |-> SortedCells(FileCellLoop(edges, variables, <<>>))]
    ELSE Dv8WriteDependencyJson(edges, c.dv8_hierarchy)

\* export_dv8_file_level as a function of the rows `SELECT src, tgt, kind FROM deps`
ExportDv8FileLevel(c, dep_rows) ==
    LET first == FileExportEdges(c, dep_rows)
        all   == IF c.align /\ first = <<>> THEN FileFallbackEdges(c, dep_rows) ELSE first
    IN  FileLevelMatrix(c, IF c.align THEN SortedSetOfEdges(all) ELSE all)

-----------------------------------------------------------------------------
(* export_dv8_per_file *)

\* _descendants: the entity and everything below it in the parent_id tree
RECURSIVE DescendantsFrom(_)
DescendantsFrom(tree) ==
    LET more == tree \cup {e \in DOMAIN entities : entities[e].parent_id \in tree}
    IN  IF more = tree THEN tree ELSE DescendantsFrom(more)

Descendants(root_id) == DescendantsFrom({e \in DOMAIN entities : e = root_id})

\* the tests at the head of the loop over file_rows
PerFileSelected(c, file_name) ==
    /\ ~(c.align /\ EndsWith(file_name, "/__init__.py"))
    /\ ~(c.only_py /\ ~EndsWith(file_name, ".py"))
    /\ \/ c.focus_prefix = None
       \/ StartsWith(file_name, c.focus_prefix)
       \/ c.include_root_py /\ ~Contains(file_name, "/") /\ EndsWith(file_name, ".py")

\* SELECT d.src, d.tgt, d.kind FROM deps d WHERE d.src IN ids [OR d.tgt IN ids]
PerFileDepRows(c, ids, table) ==
    SelectSeq(table, LAMBDA row :
        row[1] \in ids \/ (c.include_incoming_edges /\ row[2] \in ids))

\* the strict schema of the aligned per-file loop: a row passes every `continue`
PerFileAlignKeeps(row) ==
    LET dep_kind == row[3]
        src_kind == entities[row[1]].kind
        tgt_kind == entities[row[2]].kind
    IN  /\ dep_kind \in CoreKinds
        /\ ~(dep_kind = "Import" /\ ~(src_kind = "File" /\ tgt_kind = "File"))
        /\ ~(dep_kind = "Extend" /\ ~(src_kind = "Class" /\ tgt_kind = "Class"))
        /\ ~(dep_kind = "Create" /\ ~(src_kind = "Method" /\ tgt_kind = "Class"))
        /\ ~(dep_kind = "Call" /\ ~(src_kind = "Method" /\ tgt_kind = "Method"))
        /\ ~(dep_kind = "Use" /\ ~(src_kind = "Method" /\ tgt_kind = "Field"))
        /\ ~(/\ dep_kind = "Call" /\ tgt_kind = "Method"
             /\ entities[row[2]].name \in ConstructorNames
             /\ entities[row[1]].name \notin ConstructorNames)
        /\ ~(src_kind = "Method" /\ tgt_kind = "Class" /\ dep_kind # "Create")
        /\ ~(src_kind = "Field" /\ tgt_kind = "Method")
        /\ ~(src_kind = "Class" /\ tgt_kind = "Class" /\ dep_kind = "Use")

\* f"(External {ent.kind}) {_display_name(entities, id)}"
ExternalName(entity_id) ==
    "(External " \o entities[entity_id].kind \o ") " \o DisplayName(entity_id)

\* one iteration of the loop over dep_rows: the edge a row contributes, if any
PerFileEdge(c, ids, row, class_folders, local_base_dotted) ==
    LET src_id == row[1]
        tgt_id == row[2]
        aligned(id) == AlignedName(id, c.dv8_hierarchy, class_folders, local_base_dotted)
        src_name == IF ~c.align THEN DisplayName(src_id)
                    ELSE IF src_id \in ids THEN aligned(src_id)
                    ELSE ExternalName(src_id)
        tgt_name == IF tgt_id \notin ids THEN ExternalName(tgt_id)
                    ELSE IF c.align THEN aligned(tgt_id)
                    ELSE DisplayName(tgt_id)
    IN  IF ~Has(src_id) \/ ~Has(tgt_id) THEN <<>>
        ELSE IF c.align /\ ~PerFileAlignKeeps(row) THEN <<>>
        ELSE IF c.align /\ src_id \notin ids /\ ~c.include_external_targets THEN <<>>
        ELSE IF tgt_id \notin ids /\ ~c.include_external_targets THEN <<>>
        ELSE IF Falsy(src_name) \/ Falsy(tgt_name) THEN <<>>
        ELSE << <<src_name, tgt_name, row[3]>> >>

RECURSIVE PerFileEdges(_, _, _, _, _)
PerFileEdges(c, ids, dep_rows, class_folders, local_base_dotted) ==
    IF dep_rows = <<>> THEN <<>>
    ELSE PerFileEdge(c, ids, Head(dep_rows), class_folders, local_base_dotted)
         \o PerFileEdges(c, ids, Tail(dep_rows), class_folders, local_base_dotted)

\* the order in which the classes of one file are iterated, given the order of all
OrderWithin(order, class_ids) == SelectSeq(order, LAMBDA cid : cid \in class_ids)

\* the body of the loop for one selected File row: the matrix written for it;
\* table is the deps table of the database
PerFileMatrix(c, file_id, order, table) ==
    LET file_name == entities[file_id].name
        ids       == Descendants(file_id)
        dep_rows  == PerFileDepRows(c, ids, table)
        class_folders ==
            IF c.align /\ c.dv8_hierarchy = "structured"
            THEN BuildStructuredClassFolderMap({file_name}, dep_rows,
                     OrderWithin(order, FocusClassIds({file_name})))
            ELSE NoMap
        local_base_dotted ==
            IF c.align /\ c.dv8_hierarchy = "flat"
            THEN BuildLocalBaseDottedMap({file_name}, dep_rows)
            ELSE NoMap
        all   == PerFileEdges(c, ids, dep_rows, class_folders, local_base_dotted)
        edges == IF c.align THEN SortedSetOfEdges(all) ELSE all
    IN  IF c.align THEN Dv8WriteDependencyJson(edges, c.dv8_hierarchy)
        ELSE Dv8BuildDependencyJson(edges)

\* Path(file_name).stem: the last path component without its last suffix
Stem(file_name) ==
    LET base == RSplitLast(file_name, "/")
    IN  IF RFind(base, ".") > 1 THEN RSplitInit(base, ".") ELSE base

\* ids of the File rows, ORDER BY name
RECURSIVE FileRows(_)
FileRows(file_ids) ==
    IF file_ids = {} THEN <<>>
    ELSE LET m == CHOOSE x \in file_ids :
                     \A y \in file_ids : ~StrLess(entities[y].name, entities[x].name)
         IN  <<m>> \o FileRows(file_ids \ {m})

\* the loop over file_rows: out_path of a later file replaces an equal earlier one
RECURSIVE PerFileLoop(_, _, _, _, _)
PerFileLoop(c, file_rows, order, table, written) ==
    IF file_rows = <<>> THEN written
    ELSE LET file_id == Head(file_rows)
         IN  IF ~PerFileSelected(c, entities[file_id].name)
             THEN PerFileLoop(c, Tail(file_rows), order, table, written)
             ELSE PerFileLoop(c, Tail(file_rows), order, table,
                      Put(written, Stem(entities[file_id].name),
                          PerFileMatrix(c, file_id, order, table)))

\* the dependency files export_dv8_per_file leaves in out_dir/dv8_deps
ExportDv8PerFile(c, table, order) ==
    PerFileLoop(c, FileRows({e \in DOMAIN entities : entities[e].kind = "File"}), order,
                table, NoMap)

-----------------------------------------------------------------------------
(* The fact bases explored *)

Entity(parent_id, kind, name) == [parent_id |-> parent_id, kind |-> kind, name |-> name]

\* A project with a package file, a package initializer, a root script and a
\* file outside the focus prefix; class A has a nested class, a duplicated
\* method definition and a nested helper function.
ProjectEntities ==
    [id \in {"fa", "fi", "fm", "fx", "cA", "cB", "cI", "ai", "am", "ad", "ah",
             "ax", "bi", "by", "mf", "mo", "og", "xf"} |->
        CASE id = "fa" -> Entity(None, "File", "pkg/a.py")
          [] id = "fi" -> Entity(None, "File", "pkg/__init__.py")
          [] id = "fm" -> Entity(None, "File", "main.py")
          [] id = "fx" -> Entity(None, "File", "ext/lib.py")
          [] id = "cA" -> Entity("fa", "Class", "A")
          [] id = "cB" -> Entity("fa", "Class", "B")
          [] id = "cI" -> Entity("cA", "Class", "I")
          [] id = "ai" -> Entity("cA", "Method", "__init__")
          [] id = "am" -> Entity("cA", "Method", "m")
          [] id = "ad" -> Entity("cA", "Method", "m")
          [] id = "ah" -> Entity("am", "Method", "h")
          [] id = "ax" -> Entity("cA", "Field", "x")
          [] id = "bi" -> Entity("cB", "Method", "__init__")
          [] id = "by" -> Entity("cB", "Field", "y")
          [] id = "mf" -> Entity("fm", "Function", "main")
          [] id = "mo" -> Entity("fm", "Method", "run")
          [] id = "og" -> Entity("fm", "Field", "g")
          [] id = "xf" -> Entity("fx", "Function", "helper")]

\* The dep rows the engine may emit in the multi-row runs.
DepUniverse ==
    { <<"fa", "fm", "Import">>,    \* File -> File: a file-level and an entity-level edge
      <<"cB", "cA", "Extend">>,    \* local inheritance
      <<"bi", "ai", "Call">>,      \* constructor calls the base constructor
      <<"mf", "cA", "Create">>,    \* module function creates a class
      <<"am", "ax", "Use">>,       \* method uses a field of its own class
      <<"ad", "ax", "Use">>,       \* the same edge from the duplicate definition
      <<"am", "xf", "Call">> }     \* target outside the focus prefix

MaxDeps == 2

\* Every row over one entity of each shape, for the single-row runs.
RowKinds == CoreKinds \cup {"Contain"}

RowIds == {"fa", "fm", "cA", "cB", "ai", "am", "ah", "ax", "bi", "by", "mf"}

AllRows == RowIds \X RowIds \X RowKinds

Hierarchies == {"structured", "flat", "handcount"}

\* The configurations main() passes: include_root_py = focus_prefix is not None.
\* The two external-target switches are varied together, and only under a focus
\* prefix (without one no file is external).
Configs ==
    {c \in [align : BOOLEAN, dv8_hierarchy : Hierarchies, focus_prefix : {None, "pkg/"},
            include_root_py : BOOLEAN, include_external_targets : BOOLEAN,
            include_external_target_files : BOOLEAN, include_self_edges : BOOLEAN] :
        /\ c.include_root_py = (c.focus_prefix # None)
        /\ c.include_external_target_files = c.include_external_targets
        /\ (c.focus_prefix = None => ~c.include_external_targets)}

\* filter_dependencies has not run: there is no output database
NoDb == [entities |-> <<>>, deps |-> <<>>, contents |-> <<>>, removed |-> <<>>]

\* no pipeline run is being followed
NoRun == [pc |-> "off"]

\* no parent-chain walk is being stepped
NoWalk == [fn |-> None, entity_id |-> None, cur |-> None, status |-> "idle", result |-> None]

NoConfig == [align |-> FALSE, dv8_hierarchy |-> "unset", focus_prefix |-> None,
             include_root_py |-> FALSE, include_external_targets |-> FALSE,
             include_external_target_files |-> FALSE, include_self_edges |-> FALSE]

EmptyMatrix == [variables |-> <<>>, cells |-> <<>>]

-----------------------------------------------------------------------------
(* The export run *)

Init ==
    /\ entities = ProjectEntities
    /\ deps = <<>>
    /\ pc = "facts"
    /\ cfg = NoConfig
    /\ kept = <<>>
    /\ full_edges = <<>>
    /\ out = EmptyMatrix
    /\ folders = NoMap
    /\ edges_in = <<>>
    /\ walk = NoWalk
    /\ contents = NoMap
    /\ fdb = NoDb
    /\ run = NoRun
    /\ per_file = NoMap

\* the analysis engine writes one more row of the deps table
EngineEmitsDep ==
    /\ pc = "facts"
    /\ Len(deps) < MaxDeps
    /\ \E row \in DepUniverse : deps' = Append(deps, row)
    /\ UNCHANGED <<entities, pc, cfg, kept, full_edges, out, folders, edges_in, walk, contents, fdb, run, per_file>>

\* export_dv8_full_project under configuration c; order is the order in which
\* Python iterates the set class_ids
ExportFullProject ==
    /\ pc = "facts"
    /\ \E c \in Configs :
       \E order \in (IF c.dv8_hierarchy = "structured"
                     THEN Orders(FocusClassIds(FocusFileNames(c))) ELSE {<<>>}) :
          LET class_folders == FullProjectClassFolders(c, order)
              local_base    == FullProjectLocalBaseDotted(c)
              edges         == FullEdges(c, class_folders, local_base)
          IN  /\ cfg' = c
              /\ folders' = class_folders
              /\ kept' = KeptRows(c, class_folders, local_base)
              /\ full_edges' = edges
              /\ out' = Dv8WriteDependencyJson(edges, c.dv8_hierarchy)
    /\ pc' = "exported"
    /\ UNCHANGED <<entities, deps, edges_in, walk, contents, fdb, run, per_file>>

\* export_dv8_file_level, called with the same switches
ExportFileLevel ==
    /\ pc = "facts"
    /\ \E c \in Configs :
          LET edges == FileEdges(c)
          IN  /\ cfg' = c
              /\ full_edges' = edges
              /\ out' = FileLevelMatrix(c, edges)
    /\ pc' = "file_exported"
    /\ UNCHANGED <<entities, deps, kept, folders, edges_in, walk, contents, fdb, run, per_file>>

Next == EngineEmitsDep \/ ExportFullProject \/ ExportFileLevel

Spec == Init /\ [][Next]_vars

-----------------------------------------------------------------------------
(* Single-row runs: the export of every fact base with exactly one dep row *)

InitEdge ==
    /\ entities = ProjectEntities
    /\ deps \in {<<row>> : row \in AllRows}
    /\ pc = "facts"
    /\ cfg = NoConfig
    /\ kept = <<>>
    /\ full_edges = <<>>
    /\ out = EmptyMatrix
    /\ folders = NoMap
    /\ edges_in = <<>>
    /\ walk = NoWalk
    /\ contents = NoMap
    /\ fdb = NoDb
    /\ run = NoRun
    /\ per_file = NoMap

NextEdge == ExportFullProject

SpecEdge == InitEdge /\ [][NextEdge]_vars

-----------------------------------------------------------------------------
(* Class-folder runs: _build_structured_class_folder_map on small class forests *)

\* Classes P, Q, R of f.py in every nesting shape, and class S of g.py.
ForestParents ==
    { [P |-> "ff", Q |-> "ff", R |-> "ff"],     \* three top-level classes
      [P |-> "ff", Q |-> "P",  R |-> "ff"],     \* Q nested in P
      [P |-> "ff", Q |-> "P",  R |-> "P"],      \* Q and R nested in P
      [P |-> "ff", Q |-> "P",  R |-> "Q"] }     \* R nested in Q nested in P

ForestEntities(par) ==
    [id \in {"ff", "fg", "P", "Q", "R", "S"} |->
        CASE id = "ff" -> Entity(None, "File", "f.py")
          [] id = "fg" -> Entity(None, "File", "g.py")
          [] id = "S"  -> Entity("fg", "Class", "S")
          [] OTHER     -> Entity(par[id], "Class", id)]

ExtendRows == {"P", "Q", "R"} \X {"P", "Q", "R", "S"} \X {"Extend"}

MaxExtends == 2

FolderFocus == {"f.py", "g.py"}

InitFolder ==
    /\ entities \in {ForestEntities(par) : par \in ForestParents}
    /\ deps = <<>>
    /\ pc = "facts"
    /\ cfg = NoConfig
    /\ kept = <<>>
    /\ full_edges = <<>>
    /\ out = EmptyMatrix
    /\ folders = NoMap
    /\ edges_in = <<>>
    /\ walk = NoWalk
    /\ contents = NoMap
    /\ fdb = NoDb
    /\ run = NoRun
    /\ per_file = NoMap

\* the analysis engine writes one more Extend row
EngineEmitsExtend ==
    /\ pc = "facts"
    /\ Len(deps) < MaxExtends
    /\ \E row \in ExtendRows : deps' = Append(deps, row)
    /\ UNCHANGED <<entities, pc, cfg, kept, full_edges, out, folders, edges_in, walk, contents, fdb, run, per_file>>

\* _build_structured_class_folder_map with every file in focus
BuildClassFolders ==
    /\ pc = "facts"
    /\ \E order \in Orders(FocusClassIds(FolderFocus)) :
          folders' = BuildStructuredClassFolderMap(FolderFocus, deps, order)
    /\ pc' = "built"
    /\ UNCHANGED <<entities, deps, cfg, kept, full_edges, out, edges_in, walk, contents, fdb, run, per_file>>

NextFolder == EngineEmitsExtend \/ BuildClassFolders

SpecFolder == InitFolder /\ [][NextFolder]_vars

-----------------------------------------------------------------------------
(* Assembler runs: _dv8_build_dependency_json on arbitrary edge lists *)

AsmNames == {"X", "Y"}

AsmKinds == {"Call", "Use"}

MaxEdges == 3

InitAsm ==
    /\ entities = ProjectEntities
    /\ deps = <<>>
    /\ pc = "edges"
    /\ cfg = NoConfig
    /\ kept = <<>>
    /\ full_edges = <<>>
    /\ out = EmptyMatrix
    /\ folders = NoMap
    /\ edges_in = <<>>
    /\ walk = NoWalk
    /\ contents = NoMap
    /\ fdb = NoDb
    /\ run = NoRun
    /\ per_file = NoMap

\* the caller appends one more (src_name, tgt_name, kind) to the edge list
CallerAddsEdge ==
    /\ pc = "edges"
    /\ Len(edges_in) < MaxEdges
    /\ \E e \in AsmNames \X AsmNames \X AsmKinds : edges_in' = Append(edges_in, e)
    /\ UNCHANGED <<entities, deps, pc, cfg, kept, full_edges, out, folders, walk, contents, fdb, run, per_file>>

\* _dv8_build_dependency_json(edges): the non-aligned assembly, counts kept
AssembleMatrix ==
    /\ pc = "edges"
    /\ out' = Dv8BuildDependencyJson(edges_in)
    /\ pc' = "assembled"
    /\ UNCHANGED <<entities, deps, cfg, kept, full_edges, folders, edges_in, walk, contents, fdb, run, per_file>>

NextAsm == CallerAddsEdge \/ AssembleMatrix

SpecAsm == InitAsm /\ [][NextAsm]_vars

-----------------------------------------------------------------------------
(* filter_false_positives.py *)

\* IsFalsePositiveSiblingMethod with the start_row test of larger methods lost
SiblingMethodEndRowOnly(ents, src_id, tgt_id, dep_row) ==
    IF src_id \notin DOMAIN ents THEN FALSE
    ELSE IF ents[src_id].kind # "Method" THEN FALSE
    ELSE IF tgt_id \notin DOMAIN ents THEN FALSE
    ELSE IF ents[tgt_id].kind # "Method" THEN FALSE
    ELSE IF ents[src_id].parent_id # ents[tgt_id].parent_id THEN FALSE
    ELSE LET method_size == ents[src_id].end_row - ents[src_id].start_row + 1
         IN  IF method_size <= 3
             THEN dep_row = ents[src_id].start_row \/ dep_row = ents[src_id].end_row
             ELSE dep_row = ents[src_id].end_row

\* IsFalsePositiveSiblingMethod with the target tests applied only to a target
\* that was found: a row to an unknown id is judged by its source alone
SiblingMethodUnknownTarget(ents, src_id, tgt_id, dep_row) ==
    IF src_id \notin DOMAIN ents THEN FALSE
    ELSE IF ents[src_id].kind # "Method" THEN FALSE
    ELSE IF tgt_id \in DOMAIN ents /\ ents[tgt_id].kind # "Method" THEN FALSE
    ELSE IF tgt_id \in DOMAIN ents /\ ents[src_id].parent_id # ents[tgt_id].parent_id
         THEN FALSE
    ELSE dep_row = ents[src_id].start_row \/ dep_row = ents[src_id].end_row

\* is_false_positive_sibling_method; ents is the entities table the cursor reads
IsFalsePositiveSiblingMethod(ents, src_id, tgt_id, dep_row) ==
    IF src_id \notin DOMAIN ents THEN FALSE
    ELSE IF ents[src_id].kind # "Method" THEN FALSE
    ELSE IF tgt_id \notin DOMAIN ents THEN FALSE
    ELSE IF ents[tgt_id].kind # "Method" THEN FALSE
    ELSE IF ents[src_id].parent_id # ents[tgt_id].parent_id THEN FALSE
    ELSE LET method_size == ents[src_id].end_row - ents[src_id].start_row + 1
         IN  IF method_size <= 3
             THEN dep_row = ents[src_id].start_row \/ dep_row = ents[src_id].end_row
             ELSE IF dep_row = ents[src_id].end_row THEN TRUE
             ELSE dep_row = ents[src_id].start_row

\* is_false_positive_parent_class
IsFalsePositiveParentClass(ents, src_id, tgt_id, dep_row) ==
    IF src_id \notin DOMAIN ents THEN FALSE
    ELSE IF ents[src_id].kind # "Method" THEN FALSE
    ELSE IF tgt_id \notin DOMAIN ents THEN FALSE
    ELSE IF ents[tgt_id].kind # "Class" THEN FALSE
    ELSE IF ents[src_id].parent_id # tgt_id THEN FALSE
    ELSE LET method_size == ents[src_id].end_row - ents[src_id].start_row + 1
         IN  IF method_size <= 3
             THEN dep_row = ents[src_id].start_row \/ dep_row = ents[src_id].end_row
             ELSE IF dep_row = ents[src_id].end_row THEN TRUE
             ELSE dep_row = ents[src_id].start_row

\* is_false_positive_field_sibling
IsFalsePositiveFieldSibling(ents, src_id, tgt_id, dep_row) ==
    IF src_id \notin DOMAIN ents THEN FALSE
    ELSE IF ents[src_id].kind # "Field" THEN FALSE
    ELSE IF tgt_id \notin DOMAIN ents THEN FALSE
    ELSE IF ents[tgt_id].kind # "Method" THEN FALSE
    ELSE IF ents[src_id].parent_id # ents[tgt_id].parent_id THEN FALSE
    ELSE dep_row = ents[src_id].start_row \/ dep_row = ents[src_id].end_row

\* the if / elif / elif of the loop over all_deps: the reason, None when kept
FpReason(ents, dep) ==
    IF IsFalsePositiveSiblingMethod(ents, dep[1], dep[2], dep[4]) THEN "sibling_method"
    ELSE IF IsFalsePositiveParentClass(ents, dep[1], dep[2], dep[4]) THEN "parent_class"
    ELSE IF IsFalsePositiveFieldSibling(ents, dep[1], dep[2], dep[4]) THEN "field_to_method"
    ELSE None

\* false_positives: (src, tgt, kind, row, fp_reason) of every flagged row, in order
RECURSIVE FalsePositives(_, _)
FalsePositives(ents, all_deps) ==
    IF all_deps = <<>> THEN <<>>
    ELSE LET dep == Head(all_deps)
             fp_reason == FpReason(ents, dep)
         IN  (IF fp_reason # None
              THEN <<<<dep[1], dep[2], dep[3], dep[4], fp_reason>>>> ELSE <<>>)
             \o FalsePositives(ents, Tail(all_deps))

\* DeleteRows with the WHERE clause cut down to src and tgt
DeleteRowsBySrcTgt(dep_table, false_positives) ==
    SelectSeq(dep_table, LAMBDA d :
        ~\E i \in DOMAIN false_positives :
            false_positives[i][1] = d[1] /\ false_positives[i][2] = d[2])

\* DELETE FROM deps WHERE src = ? AND tgt = ? AND kind = ? AND row = ?, once per false positive
DeleteRows(dep_table, false_positives) ==
    SelectSeq(dep_table, LAMBDA d :
        ~\E i \in DOMAIN false_positives :
            <<false_positives[i][1], false_positives[i][2],
              false_positives[i][3], false_positives[i][4]>> = d)

\* CopyDb that copies the entities and deps tables only
CopyDbWithoutContents(db) == [entities |-> db.entities, deps |-> db.deps, contents |-> <<>>]

\* shutil.copy2(input_db, output_db): every table of the file
CopyDb(db) == [entities |-> db.entities, deps |-> db.deps, contents |-> db.contents]

\* filter_dependencies: the output database and the list false_positives
FilterDependencies(input_db) ==
    LET copy == CopyDb(input_db)
        false_positives == FalsePositives(copy.entities, copy.deps)
    IN  [entities |-> copy.entities,
         deps     |-> DeleteRows(copy.deps, false_positives),
         contents |-> copy.contents,
         removed  |-> false_positives]

\* A file with two classes; class C has a one-line method, a two-line method, a
\* six-line method and a field; class D has one method.
FEntity(parent_id, kind, name, start_row, end_row) ==
    [parent_id |-> parent_id, kind |-> kind, name |-> name,
     start_row |-> start_row, end_row |-> end_row]

FilterEntities ==
    [id \in {"ff", "cC", "cD", "s1", "s2", "s3", "d1", "fl"} |->
        CASE id = "ff" -> FEntity(None, "File", "f.py", 0, 30)
          [] id = "cC" -> FEntity("ff", "Class", "C", 1, 20)
          [] id = "cD" -> FEntity("ff", "Class", "D", 22, 28)
          [] id = "fl" -> FEntity("cC", "Field", "x", 3, 3)
          [] id = "s1" -> FEntity("cC", "Method", "one", 10, 10)
          [] id = "s2" -> FEntity("cC", "Method", "two", 12, 13)
          [] id = "s3" -> FEntity("cC", "Method", "six", 14, 19)
          [] OTHER     -> FEntity("cD", "Method", "other", 23, 24)]

FilterContents == [k1 |-> "class C: ...", k2 |-> "class D: ..."]

\* the (source, row) pairs of the rows explored: each source at the rows of its
\* span boundary and at a row that is not; "zz" is no entity
FilterSourceRows ==
    { <<"s1", 10>>, <<"s1", 12>>, <<"s3", 14>>, <<"s3", 19>>, <<"s3", 16>>,
      <<"fl", 3>>, <<"fl", 12>>, <<"cC", 1>>, <<"zz", 10>> }

FilterTargets == {"s2", "d1", "cC", "cD", "zz"}

FilterKinds == {"Call", "Use"}

FilterRows ==
    {<<sr[1], t, k, sr[2]>> : sr \in FilterSourceRows, t \in FilterTargets, k \in FilterKinds}

MaxFilterDeps == 2

InitFilter ==
    /\ entities = FilterEntities
    /\ deps = <<>>
    /\ pc = "facts"
    /\ cfg = NoConfig
    /\ kept = <<>>
    /\ full_edges = <<>>
    /\ out = EmptyMatrix
    /\ folders = NoMap
    /\ edges_in = <<>>
    /\ walk = NoWalk
    /\ contents = FilterContents
    /\ fdb = NoDb
    /\ run = NoRun
    /\ per_file = NoMap

\* the analysis engine writes one more row (src, tgt, kind, row) of deps
EngineEmitsRow ==
    /\ pc = "facts"
    /\ Len(deps) < MaxFilterDeps
    /\ \E row \in FilterRows : deps' = Append(deps, row)
    /\ UNCHANGED <<entities, pc, cfg, kept, full_edges, out, folders, edges_in, walk,
                   contents, fdb, run, per_file>>

\* filter_dependencies(input_db, output_db)
RunFilter ==
    /\ pc = "facts"
    /\ fdb' = FilterDependencies([entities |-> entities, deps |-> deps,
                                  contents |-> contents])
    /\ pc' = "filtered"
    /\ UNCHANGED <<entities, deps, cfg, kept, full_edges, out, folders, edges_in, walk,
                   contents, run, per_file>>

NextFilter == EngineEmitsRow \/ RunFilter

SpecFilter == InitFilter /\ [][NextFilter]_vars

-----------------------------------------------------------------------------
(* Parent-chain walks, one loop iteration per step, on entity tables whose      *)
(* parent_id chains may be self-referential or cyclic                          *)

\* File f, classes c and k, and two Method entities of the same name (a
\* duplicate-tagging artifact): the parents of c, k, m and n vary.
WalkTables ==
    { [id \in {"f", "c", "k", "m", "n"} |->
          CASE id = "f" -> Entity(None, "File", "f.py")
            [] id = "c" -> Entity(pc_, "Class", "C")
            [] id = "k" -> Entity(pk, "Class", "K")
            [] id = "m" -> Entity(pm, "Method", "m")
            [] OTHER    -> Entity(pn, "Method", "m")] :
        pc_ \in {"f", "k"}, pk \in {"f", "c", "k"},
        pm \in {"c", "m", "n"}, pn \in {"c", "m", "n", None} }

\* the ids a walk is started on; "zz" is in no table
WalkIds == {"f", "c", "k", "m", "n", "zz"}

\* entities.get(id)
Get(id) == IF Has(id) THEN id ELSE None

InitWalk ==
    /\ entities \in WalkTables
    /\ deps = <<>>
    /\ pc = "facts"
    /\ cfg = NoConfig
    /\ kept = <<>>
    /\ full_edges = <<>>
    /\ out = EmptyMatrix
    /\ folders = NoMap
    /\ edges_in = <<>>
    /\ walk = NoWalk
    /\ contents = NoMap
    /\ fdb = NoDb
    /\ run = NoRun
    /\ per_file = NoMap

Returned(result) == [walk EXCEPT !.status = "returned", !.result = result, !.cur = None]

WalkFrame ==
    <<entities, deps, pc, cfg, kept, full_edges, out, folders, edges_in, contents, fdb, run,
      per_file>>

\* a name resolver calls one of the three walks on an entity id
CallWalk ==
    /\ walk.status = "idle"
    /\ \E fn \in {"_ancestor_file_id", "_owner_class_entity", "_class_chain_names"},
          id \in WalkIds :
          walk' = [fn |-> fn, entity_id |-> id, cur |-> Get(id),
                   status |-> "running", result |-> None]
    /\ UNCHANGED WalkFrame

\* one test of `while current is not None` of _ancestor_file_id (fresh memo)
StepAncestorFileId ==
    /\ walk.status = "running"
    /\ walk.fn = "_ancestor_file_id"
    /\ walk' = IF walk.cur = None THEN Returned(None)
               ELSE IF entities[walk.cur].kind = "File" THEN Returned(walk.cur)
               ELSE IF entities[walk.cur].parent_id = None THEN Returned(None)
               ELSE [walk EXCEPT !.cur = Get(entities[walk.cur].parent_id)]
    /\ UNCHANGED WalkFrame

\* one test of the `while` of _owner_class_entity
StepOwnerClassEntity ==
    /\ walk.status = "running"
    /\ walk.fn = "_owner_class_entity"
    /\ walk' = IF walk.cur = None THEN Returned(None)
               ELSE LET pid == entities[walk.cur].parent_id
                    IN  IF pid = None \/ ~Has(pid) THEN Returned(None)
                        ELSE IF entities[pid].kind = "Class" THEN Returned(pid)
                        ELSE IF entities[pid].kind = "File" THEN Returned(None)
                        ELSE [walk EXCEPT !.cur = pid]
    /\ UNCHANGED WalkFrame

\* one test of the `while` of _class_chain_names; leaving the loop, the chain is
\* reversed and deduplicated and returned
StepClassChainNames ==
    /\ walk.status = "running"
    /\ walk.fn = "_class_chain_names"
    /\ walk' = IF walk.cur = None THEN Returned(ClassChainNames(walk.entity_id))
               ELSE LET pid == entities[walk.cur].parent_id
                    IN  IF pid = None \/ ~Has(pid)
                        THEN Returned(ClassChainNames(walk.entity_id))
                        ELSE [walk EXCEPT !.cur = pid]
    /\ UNCHANGED WalkFrame

NextWalk ==
    CallWalk \/ StepAncestorFileId \/ StepOwnerClassEntity \/ StepClassChainNames

\* the interpreter runs a started loop on: a step that is possible is taken
SpecWalk == InitWalk /\ [][NextWalk]_vars /\ WF_vars(NextWalk)

-----------------------------------------------------------------------------
(* main.run_one for a Python project: engine, raw snapshot, optional           *)
(* false-positive filter, optional enhancement, final exports                  *)

\* a database path that does not exist yet
NoFile == [exists |-> FALSE, deps |-> <<>>, enhanced |-> FALSE]

\* the dep tables the engine may write for the project of FilterEntities
PipelineFacts ==
    { <<>>,
      << <<"s1", "s2", "Call", 10>> >>,
      << <<"s1", "s2", "Call", 12>> >>,
      << <<"s1", "s2", "Call", 10>>, <<"s1", "d1", "Call", 10>> >>,
      << <<"fl", "s2", "Use", 3>>, <<"s1", "cC", "Use", 10>> >>,
      << <<"s3", "s2", "Call", 16>>, <<"s3", "s2", "Call", 19>> >> }

\* rows the enhancement script derives; they sit on the start row of the source method
DerivedRows == { <<"s1", "s2", "Call", 10>>, <<"s2", "s1", "Call", 12>> }

MaxRuns == 2

InitPipeline ==
    /\ entities = FilterEntities
    /\ deps = <<>>
    /\ pc = "facts"
    /\ cfg = NoConfig
    /\ kept = <<>>
    /\ full_edges = <<>>
    /\ out = EmptyMatrix
    /\ folders = NoMap
    /\ edges_in = <<>>
    /\ walk = NoWalk
    /\ contents = FilterContents
    /\ fdb = NoDb
    /\ run = [pc |-> "start", runs |-> 0, resolver |-> "depends",
              filter_fp |-> FALSE, no_enhance |-> FALSE,
              db |-> NoFile, raw_db |-> NoFile, filtered_raw_db |-> NoFile,
              used_filtered_db |-> FALSE, log |-> <<>>]
    /\ per_file = NoMap

PipelineFrame ==
    <<entities, deps, pc, cfg, kept, full_edges, out, folders, edges_in, walk, contents, fdb,
      per_file>>

\* resolver == "stackgraphs" and bool(args.filter_stackgraphs_false_positives)
FilterRequested(r) == r.resolver = "stackgraphs" /\ r.filter_fp

\* the subprocess filter_false_positives.py input_db output_db
FilterFile(f) ==
    [exists   |-> TRUE,
     deps     |-> FilterDependencies([entities |-> entities, deps |-> f.deps,
                                      contents |-> contents]).deps,
     enhanced |-> f.enhanced]

\* the subprocess enhance_python_deps.py db_path: derived rows are inserted in place
EnhanceFile(f, derived) ==
    [exists |-> TRUE, deps |-> f.deps \o derived, enhanced |-> TRUE]

\* the filter stage leaves the raw database alone and keeps the unfiltered base
KeepUnfilteredBase(r) == [r EXCEPT !.used_filtered_db = TRUE]

\* shutil.copyfile(filtered_raw_db_path, db_path); used_filtered_db = True
UseFilteredBase(r) == [r EXCEPT !.db = r.filtered_raw_db, !.used_filtered_db = TRUE]

\* run_neodepends(--force, --output=db_path) and the flags set before the branch
RunNeodepends ==
    /\ run.pc = "start"
    /\ run.runs < MaxRuns
    /\ \E resolver \in {"depends", "stackgraphs"}, filter_fp \in BOOLEAN,
          no_enhance \in BOOLEAN, facts \in PipelineFacts :
          /\ run' = [run EXCEPT !.pc = "raw", !.runs = @ + 1,
                                !.resolver = resolver, !.filter_fp = filter_fp,
                                !.no_enhance = no_enhance,
                                !.db = [exists |-> TRUE, deps |-> facts, enhanced |-> FALSE],
                                !.used_filtered_db = FALSE,
                                !.log = <<[op |-> "engine", path |-> "db_path",
                                           read |-> NoFile]>>]
          /\ deps' = facts
    /\ UNCHANGED <<entities, pc, cfg, kept, full_edges, out, folders, edges_in, walk,
                   contents, fdb, per_file>>

\* shutil.copyfile(db_path, raw_db_path) and the raw snapshot exports, which only read
SnapshotRaw ==
    /\ run.pc = "raw"
    /\ run' = [run EXCEPT !.pc = "snapshot", !.raw_db = run.db,
                          !.log = Append(@, [op |-> "raw_export", path |-> "raw_db_path",
                                             read |-> run.db])]
    /\ UNCHANGED PipelineFrame

\* the false-positive stage: unlink, filter raw_db_path into filtered_raw_db_path,
\* export the filtered snapshot, make it the base of enhancement
FilterStage ==
    /\ run.pc = "snapshot"
    /\ FilterRequested(run)
    /\ LET filtered == FilterFile(run.raw_db)
           ran      == [run EXCEPT !.filtered_raw_db = filtered]
       IN  /\ run' = [UseFilteredBase(ran) EXCEPT
                         !.pc = "base_ready",
                         !.log = Append(@, [op |-> "filter", path |-> "raw_db_path",
                                            read |-> run.raw_db])]
           /\ fdb' = FilterDependencies([entities |-> entities, deps |-> run.raw_db.deps,
                                         contents |-> contents])
    /\ UNCHANGED <<entities, deps, pc, cfg, kept, full_edges, out, folders, edges_in, walk,
                   contents, per_file>>

\* where the code stands in front of `if not args.no_enhance`
BeforeEnhance(r) ==
    \/ r.pc = "base_ready"
    \/ r.pc = "snapshot" /\ ~FilterRequested(r)

\* run_python_enhancement(db_path)
Enhance ==
    /\ BeforeEnhance(run)
    /\ ~run.no_enhance
    /\ \E derived \in {<<>>} \cup {<<d>> : d \in DerivedRows} :
          run' = [run EXCEPT !.pc = "enhanced", !.db = EnhanceFile(run.db, derived),
                             !.log = Append(@, [op |-> "enhance", path |-> "db_path",
                                                read |-> run.db])]
    /\ UNCHANGED PipelineFrame

\* the final per-file, file-level and full-project exports of db_path
FinalExports ==
    /\ \/ run.pc = "enhanced"
       \/ BeforeEnhance(run) /\ run.no_enhance
    /\ run' = [run EXCEPT !.pc = "done",
                          !.log = Append(@, [op |-> "export", path |-> "db_path",
                                             read |-> run.db])]
    /\ UNCHANGED PipelineFrame

\* a script path does not exist or a subprocess exits non-zero: the run raises
RunRaises ==
    /\ \/ run.pc = "snapshot" /\ FilterRequested(run)
       \/ BeforeEnhance(run) /\ ~run.no_enhance
    /\ run' = [run EXCEPT !.pc = "done",
                          !.log = Append(@, [op |-> "raise", path |-> "none",
                                             read |-> NoFile])]
    /\ UNCHANGED PipelineFrame

\* the tool is started again on the same output directory
RunAgain ==
    /\ run.pc = "done"
    /\ run.runs < MaxRuns
    /\ run' = [run EXCEPT !.pc = "start"]
    /\ UNCHANGED PipelineFrame

NextPipeline ==
    RunNeodepends \/ SnapshotRaw \/ FilterStage \/ Enhance \/ FinalExports \/ RunRaises
        \/ RunAgain

SpecPipeline == InitPipeline /\ [][NextPipeline]_vars

-----------------------------------------------------------------------------
(* The three exports on a project with package initializers *)

\* a root-level initializer, a package initializer and one ordinary module
InitializerEntities ==
    [id \in {"ri", "rC", "rm", "pi", "pC", "pm", "fa", "cA", "am"} |->
        CASE id = "ri" -> Entity(None, "File", "__init__.py")
          [] id = "rC" -> Entity("ri", "Class", "R")
          [] id = "rm" -> Entity("rC", "Method", "go")
          [] id = "pi" -> Entity(None, "File", "pkg/__init__.py")
          [] id = "pC" -> Entity("pi", "Class", "P")
          [] id = "pm" -> Entity("pC", "Method", "boot")
          [] id = "fa" -> Entity(None, "File", "pkg/a.py")
          [] id = "cA" -> Entity("fa", "Class", "A")
          [] OTHER     -> Entity("cA", "Method", "m")]

InitializerRows ==
    { <<"fa", "ri", "Import">>, <<"fa", "pi", "Import">>, <<"ri", "fa", "Import">>,
      <<"am", "rm", "Call">>, <<"am", "pm", "Call">>, <<"pm", "am", "Call">>,
      <<"rC", "cA", "Extend">> }

\* the switches main() passes to export_dv8_per_file
PerFileConfigs ==
    {c \in [align : BOOLEAN, dv8_hierarchy : Hierarchies, focus_prefix : {None, "pkg/"},
            include_root_py : BOOLEAN, include_external_targets : BOOLEAN,
            include_external_target_files : {FALSE}, include_self_edges : {FALSE},
            include_incoming_edges : BOOLEAN, only_py : BOOLEAN] :
        c.include_root_py = (c.focus_prefix # None)}

InitInitializer ==
    /\ entities = InitializerEntities
    /\ deps = <<>>
    /\ pc = "facts"
    /\ cfg = NoConfig
    /\ kept = <<>>
    /\ full_edges = <<>>
    /\ out = EmptyMatrix
    /\ folders = NoMap
    /\ edges_in = <<>>
    /\ walk = NoWalk
    /\ contents = NoMap
    /\ fdb = NoDb
    /\ run = NoRun
    /\ per_file = NoMap

\* the analysis engine writes one more row of the deps table
EngineEmitsInitializerDep ==
    /\ pc = "facts"
    /\ Len(deps) < MaxDeps
    /\ \E row \in InitializerRows : deps' = Append(deps, row)
    /\ UNCHANGED <<entities, pc, cfg, kept, full_edges, out, folders, edges_in, walk,
                   contents, fdb, run, per_file>>

\* export_dv8_per_file under configuration c; order is the order in which Python
\* iterates the Class entities
ExportPerFile ==
    /\ pc = "facts"
    /\ \E c \in PerFileConfigs :
       \E order \in Orders({e \in DOMAIN entities : entities[e].kind = "Class"}) :
          /\ cfg' = c
          /\ per_file' = ExportDv8PerFile(c, deps, order)
    /\ pc' = "per_file_exported"
    /\ UNCHANGED <<entities, deps, kept, full_edges, out, folders, edges_in, walk,
                   contents, fdb, run>>

NextInitializer ==
    EngineEmitsInitializerDep \/ ExportFullProject \/ ExportFileLevel \/ ExportPerFile

SpecInitializer == InitInitializer /\ [][NextInitializer]_vars

-----------------------------------------------------------------------------
(* Reorder runs: _dv8_reorder_dependency_json on the node names of one file *)

\* a package file, a root script, and a file in a directory called functions
SortFileNames == {"pkg/a.py", "main.py", "pkg/functions/a.py"}

\* one file with a module-level function (tagged Function, or Method parented by
\* the File), a class, its constructor, a method and a field
SortTables ==
    { [id \in {"f", "g", "c", "i", "m", "x"} |->
          CASE id = "f" -> Entity(None, "File", file_name)
            [] id = "g" -> Entity("f", function_kind, "helper")
            [] id = "c" -> Entity("f", "Class", "A")
            [] id = "i" -> Entity("c", "Method", "__init__")
            [] id = "m" -> Entity("c", "Method", "m")
            [] OTHER    -> Entity("c", "Field", "x")] :
        file_name \in SortFileNames, function_kind \in {"Function", "Method"} }

MaxNodes == 3

InitSort ==
    /\ entities \in SortTables
    /\ deps = <<>>
    /\ pc = "nodes"
    /\ cfg \in {[NoConfig EXCEPT !.align = TRUE, !.dv8_hierarchy = h] : h \in Hierarchies}
    /\ kept = <<>>
    /\ full_edges = <<>>
    /\ out = EmptyMatrix
    /\ folders = NoMap
    /\ edges_in = <<>>
    /\ walk = NoWalk
    /\ contents = NoMap
    /\ fdb = NoDb
    /\ run = NoRun
    /\ per_file = NoMap

\* the name the resolver gives an entity of the table under the run's scheme
NodeName(id) == AlignedName(id, cfg.dv8_hierarchy, NoMap, NoMap)

\* ensure(v) of the assembler: a node not yet listed is appended to `variables`
CallerListsNode ==
    /\ pc = "nodes"
    /\ Len(out.variables) < MaxNodes
    /\ \E id \in DOMAIN entities :
          /\ ~Falsy(NodeName(id))
          /\ \A k \in DOMAIN out.variables : out.variables[k] # NodeName(id)
          /\ out' = [out EXCEPT !.variables = Append(@, NodeName(id))]
    /\ UNCHANGED <<entities, deps, pc, cfg, kept, full_edges, folders, edges_in, walk,
                   contents, fdb, run, per_file>>

\* _dv8_reorder_dependency_json(obj, sort_key = _dv8_sort_key_for_hierarchy(h))
ReorderNodes ==
    /\ pc = "nodes"
    /\ out' = Dv8ReorderDependencyJson(out, cfg.dv8_hierarchy)
    /\ pc' = "sorted"
    /\ UNCHANGED <<entities, deps, cfg, kept, full_edges, folders, edges_in, walk,
                   contents, fdb, run, per_file>>

NextSort == CallerListsNode \/ ReorderNodes

SpecSort == InitSort /\ [][NextSort]_vars

-----------------------------------------------------------------------------
(* The filter and the three exports on partial results of the engine *)

\* a package file with two classes and a root script with a module function
PartialEntities ==
    [id \in {"ff", "cC", "cD", "fl", "s1", "s2", "fg", "mg"} |->
        CASE id = "ff" -> FEntity(None, "File", "pkg/f.py", 0, 30)
          [] id = "cC" -> FEntity("ff", "Class", "C", 1, 20)
          [] id = "cD" -> FEntity("ff", "Class", "D", 22, 28)
          [] id = "fl" -> FEntity("cC", "Field", "x", 3, 3)
          [] id = "s1" -> FEntity("cC", "Method", "one", 10, 10)
          [] id = "s2" -> FEntity("cC", "Method", "two", 12, 13)
          [] id = "fg" -> FEntity(None, "File", "main.py", 0, 9)
          [] OTHER     -> FEntity("fg", "Method", "run", 2, 5)]

\* rows (src, tgt, kind, row) between entities, and rows that name "zz", an id
\* the entities table does not hold
PartialRows ==
    { <<"s1", "s2", "Call", 10>>, <<"fl", "s2", "Use", 3>>, <<"cD", "cC", "Extend", 22>>,
      <<"fg", "ff", "Import", 1>>, <<"mg", "s2", "Call", 3>>,
      <<"s1", "zz", "Call", 10>>, <<"zz", "s2", "Call", 12>>, <<"fl", "zz", "Use", 3>>,
      <<"cD", "zz", "Extend", 22>>, <<"zz", "ff", "Import", 1>>, <<"fg", "zz", "Import", 1>> }

InitPartial ==
    /\ entities = PartialEntities
    /\ deps = <<>>
    /\ pc = "facts"
    /\ cfg = NoConfig
    /\ kept = <<>>
    /\ full_edges = <<>>
    /\ out = EmptyMatrix
    /\ folders = NoMap
    /\ edges_in = <<>>
    /\ walk = NoWalk
    /\ contents = FilterContents
    /\ fdb = NoDb
    /\ run = NoRun
    /\ per_file = NoMap

\* the analysis engine writes one more row (src, tgt, kind, row) of deps
EngineEmitsPartialRow ==
    /\ pc = "facts"
    /\ Len(deps) < MaxFilterDeps
    /\ \E row \in PartialRows : deps' = Append(deps, row)
    /\ UNCHANGED <<entities, pc, cfg, kept, full_edges, out, folders, edges_in, walk,
                   contents, fdb, run, per_file>>

NextPartial ==
    EngineEmitsPartialRow \/ RunFilter \/ ExportFullProject \/ ExportFileLevel
        \/ ExportPerFile

SpecPartial == InitPartial /\ [][NextPartial]_vars

-----------------------------------------------------------------------------
(* Full-project exports of the same rows stored in different orders *)

\* rows that give file, class, function, method and field nodes
OrderRows ==
    { <<"fa", "fm", "Import">>, <<"mf", "cA", "Create">>, <<"am", "ax", "Use">> }

\* the analysis engine writes one more row of the deps table
EngineEmitsOrderedDep ==
    /\ pc = "facts"
    /\ Len(deps) < MaxDeps
    /\ \E row \in OrderRows : deps' = Append(deps, row)
    /\ UNCHANGED <<entities, pc, cfg, kept, full_edges, out, folders, edges_in, walk,
                   contents, fdb, run, per_file>>

NextOrder == EngineEmitsOrderedDep \/ ExportFullProject

SpecOrder == Init /\ [][NextOrder]_vars

-----------------------------------------------------------------------------
(* Full-project exports of a fact base with members that have no owning class *)

\* pkg/a.py holds class A (method m with a local field t, field x) and a
\* module-level field g; main.py holds the module function run, recorded as a
\* Method parented by the File, with a local field l and a nested function h;
\* ext/lib.py, outside the focus prefix, holds a module-level field k.
OrphanEntities ==
    [id \in {"fa", "cA", "am", "al", "ax", "ag", "fm", "mo", "ol", "mh", "fx", "xg"} |->
        CASE id = "fa" -> Entity(None, "File", "pkg/a.py")
          [] id = "cA" -> Entity("fa", "Class", "A")
          [] id = "am" -> Entity("cA", "Method", "m")
          [] id = "al" -> Entity("am", "Field", "t")
          [] id = "ax" -> Entity("cA", "Field", "x")
          [] id = "ag" -> Entity("fa", "Field", "g")
          [] id = "fm" -> Entity(None, "File", "main.py")
          [] id = "mo" -> Entity("fm", "Method", "run")
          [] id = "ol" -> Entity("mo", "Field", "l")
          [] id = "mh" -> Entity("mo", "Method", "h")
          [] id = "fx" -> Entity(None, "File", "ext/lib.py")
          [] id = "xg" -> Entity("fx", "Field", "k")]

\* the dep rows the engine may emit over these entities
OrphanRows ==
    { <<"am", "ax", "Use">>,     \* a method uses a field of its class
      <<"am", "al", "Use">>,     \* a method uses its local field
      <<"am", "ag", "Use">>,     \* a method uses a module-level field
      <<"ag", "am", "Call">>,    \* a module-level field initialised by a call
      <<"mo", "ol", "Use">>,     \* a module function uses its local field
      <<"mo", "am", "Call">>,    \* a module function calls a method
      <<"mh", "am", "Call">>,    \* a nested function calls a method
      <<"am", "xg", "Use">> }    \* a method uses a module-level field out of focus

InitOrphan ==
    /\ entities = OrphanEntities
    /\ deps = <<>>
    /\ pc = "facts"
    /\ cfg = NoConfig
    /\ kept = <<>>
    /\ full_edges = <<>>
    /\ out = EmptyMatrix
    /\ folders = NoMap
    /\ edges_in = <<>>
    /\ walk = NoWalk
    /\ contents = NoMap
    /\ fdb = NoDb
    /\ run = NoRun
    /\ per_file = NoMap

\* the analysis engine writes one more row of the deps table
EngineEmitsOrphanDep ==
    /\ pc = "facts"
    /\ Len(deps) < MaxDeps
    /\ \E row \in OrphanRows : deps' = Append(deps, row)
    /\ UNCHANGED <<entities, pc, cfg, kept, full_edges, out, folders, edges_in, walk,
                   contents, fdb, run, per_file>>

NextOrphan == EngineEmitsOrphanDep \/ ExportFullProject

SpecOrphan == InitOrphan /\ [][NextOrphan]_vars

-----------------------------------------------------------------------------
(* Full-project exports of a fact base with self-extension and mutual extension *)

\* Extend rows among the classes A and B of pkg/a.py, and one member row
InheritRows ==
    { <<"cA", "cA", "Extend">>, <<"cB", "cB", "Extend">>, <<"cB", "cA", "Extend">>,
      <<"cA", "cB", "Extend">>, <<"am", "ax", "Use">> }

\* the analysis engine writes one more row of the deps table
EngineEmitsInheritDep ==
    /\ pc = "facts"
    /\ Len(deps) < MaxDeps
    /\ \E row \in InheritRows : deps' = Append(deps, row)
    /\ UNCHANGED <<entities, pc, cfg, kept, full_edges, out, folders, edges_in, walk,
                   contents, fdb, run, per_file>>

NextInherit == EngineEmitsInheritDep \/ ExportFullProject

SpecInherit == Init /\ [][NextInherit]_vars

-----------------------------------------------------------------------------
(* Assembler runs with reordering: _dv8_write_dependency_json on edge lists *)

\* node names whose sort order is not their first-seen order
ReorderNames ==
    {"main.py/self (File)", "pkg/a.py/self (File)", "pkg/a.py/A/methods/m (Method)"}

MaxReorderEdges == 2

\* the caller appends one more (src_name, tgt_name, kind) to the edge list
CallerAddsNamedEdge ==
    /\ pc = "edges"
    /\ Len(edges_in) < MaxReorderEdges
    /\ \E e \in ReorderNames \X ReorderNames \X AsmKinds : edges_in' = Append(edges_in, e)
    /\ UNCHANGED <<entities, deps, pc, cfg, kept, full_edges, out, folders, walk,
                   contents, fdb, run, per_file>>

\* _dv8_write_dependency_json(edges, sort_key = _dv8_sort_key_for_hierarchy(h)):
\* the assembly followed by _dv8_reorder_dependency_json
WriteReordered ==
    /\ pc = "edges"
    /\ \E h \in Hierarchies :
          /\ cfg' = [NoConfig EXCEPT !.dv8_hierarchy = h]
          /\ out' = Dv8WriteDependencyJson(edges_in, h)
    /\ pc' = "reordered"
    /\ UNCHANGED <<entities, deps, kept, full_edges, folders, edges_in, walk, contents,
                   fdb, run, per_file>>

NextReorder == CallerAddsNamedEdge \/ AssembleMatrix \/ WriteReordered

SpecReorder == InitAsm /\ [][NextReorder]_vars

-----------------------------------------------------------------------------
(* Full-project exports of a fact base with nested helpers and duplicate tags *)

\* pkg/a.py: class A with method m, a second Method entity m parented by the
\* first (duplicate tagging), a helper h defined inside m and one inside the
\* duplicate, and field x; module function main with a nested function inner
\* and a duplicate Function entity main parented by the first.
NestedEntities ==
    [id \in {"fa", "cA", "am", "ad", "ah", "ak", "ax", "mf", "mg", "mm"} |->
        CASE id = "fa" -> Entity(None, "File", "pkg/a.py")
          [] id = "cA" -> Entity("fa", "Class", "A")
          [] id = "am" -> Entity("cA", "Method", "m")
          [] id = "ad" -> Entity("am", "Method", "m")
          [] id = "ah" -> Entity("am", "Method", "h")
          [] id = "ak" -> Entity("ad", "Method", "h")
          [] id = "ax" -> Entity("cA", "Field", "x")
          [] id = "mf" -> Entity("fa", "Function", "main")
          [] id = "mg" -> Entity("mf", "Function", "inner")
          [] id = "mm" -> Entity("mf", "Function", "main")]

\* rows of a shape the alignment filter keeps, from each kind of source
NestedRows ==
    { <<"am", "ax", "Use">>, <<"ad", "ax", "Use">>, <<"ah", "ax", "Use">>,
      <<"ak", "ax", "Use">>, <<"mf", "cA", "Create">>, <<"mm", "cA", "Create">>,
      <<"mg", "cA", "Create">>, <<"am", "ah", "Call">> }

InitNested ==
    /\ entities = NestedEntities
    /\ deps = <<>>
    /\ pc = "facts"
    /\ cfg = NoConfig
    /\ kept = <<>>
    /\ full_edges = <<>>
    /\ out = EmptyMatrix
    /\ folders = NoMap
    /\ edges_in = <<>>
    /\ walk = NoWalk
    /\ contents = NoMap
    /\ fdb = NoDb
    /\ run = NoRun
    /\ per_file = NoMap

\* the analysis engine writes one more row of the deps table
EngineEmitsNestedDep ==
    /\ pc = "facts"
    /\ Len(deps) < MaxDeps
    /\ \E row \in NestedRows : deps' = Append(deps, row)
    /\ UNCHANGED <<entities, pc, cfg, kept, full_edges, out, folders, edges_in, walk,
                   contents, fdb, run, per_file>>

NextNested == EngineEmitsNestedDep \/ ExportFullProject

SpecNested == InitNested /\ [][NextNested]_vars

-----------------------------------------------------------------------------
(* One file exported both ways: a fact base of one dependency row *)

\* one file holding a class with a constructor, a method, a nested helper and a
\* field, a module-level function and a method parented by the file
SchemaEntities ==
    [id \in {"fa", "cA", "ai", "am", "ah", "ax", "mf", "mo"} |->
        CASE id = "fa" -> Entity(None, "File", "pkg/a.py")
          [] id = "cA" -> Entity("fa", "Class", "A")
          [] id = "ai" -> Entity("cA", "Method", "__init__")
          [] id = "am" -> Entity("cA", "Method", "m")
          [] id = "ah" -> Entity("am", "Method", "h")
          [] id = "ax" -> Entity("cA", "Field", "x")
          [] id = "mf" -> Entity("fa", "Function", "main")
          [] id = "mo" -> Entity("fa", "Method", "run")]

\* the rows the deps table can hold over these entities
SchemaRows == (DOMAIN SchemaEntities) \X (DOMAIN SchemaEntities) \X CoreKinds

InitSchema ==
    /\ entities = SchemaEntities
    /\ deps \in {<<row>> : row \in SchemaRows}
    /\ pc = "facts"
    /\ cfg = NoConfig
    /\ kept = <<>>
    /\ full_edges = <<>>
    /\ out = EmptyMatrix
    /\ folders = NoMap
    /\ edges_in = <<>>
    /\ walk = NoWalk
    /\ contents = NoMap
    /\ fdb = NoDb
    /\ run = NoRun
    /\ per_file = NoMap

NextSchema == ExportFullProject \/ ExportPerFile

SpecSchema == InitSchema /\ [][NextSchema]_vars

-----------------------------------------------------------------------------
(* Properties of the exported matrices *)

Aligned == pc = "exported" /\ cfg.align

Emitted == pc \in {"exported", "file_exported"}

Methodish == {"Method", "Function"}

\* the name the full-project export of this run gives an entity
RunName(id) ==
    AlignedName(id, cfg.dv8_hierarchy, folders, FullProjectLocalBaseDotted(cfg))

\* the entities above an entity on its parent chain
RECURSIVE AncestorsOf(_)
AncestorsOf(id) ==
    LET pid == entities[id].parent_id
    IN  IF pid = None \/ ~Has(pid) THEN {} ELSE {pid} \cup AncestorsOf(pid)

Occurrences(seq, v) == Cardinality({i \in DOMAIN seq : seq[i] = v})

\* C1: in aligned mode every in-focus Class that resolves to a name is listed in
\* `variables` of the full-project matrix, also when no surviving edge touches it.
C1_IsolatedClassesListed ==
    Aligned =>
        \A id \in FocusEntityIds(cfg) :
            (entities[id].kind = "Class" /\ ~Falsy(RunName(id)))
                => RunName(id) \in Range(out.variables)

\* C2: after alignment every surviving entity-level edge has a core kind and the
\* endpoint kinds that kind requires: Import File->File, Extend Class->Class,
\* Create Method/Function->Class, Call Method/Function->Method/Function,
\* Use Method/Function->Field.
C2_ShapeEnforcement ==
    Aligned =>
        \A i \in DOMAIN kept :
            LET k  == kept[i][3]
                sk == entities[kept[i][1]].kind
                tk == entities[kept[i][2]].kind
            IN  /\ k \in CoreKinds
                /\ (k = "Import" => (sk = "File" /\ tk = "File"))
                /\ (k = "Extend" => (sk = "Class" /\ tk = "Class"))
                /\ (k = "Create" => (sk \in Methodish /\ tk = "Class"))
                /\ (k = "Call" => (sk \in Methodish /\ tk \in Methodish))
                /\ (k = "Use" => (sk \in Methodish /\ tk = "Field"))

\* an aligned export in which a Method -> Method Call row survived
C2_Witness ==
    /\ Aligned
    /\ \E i \in DOMAIN kept :
          /\ kept[i][3] = "Call"
          /\ entities[kept[i][1]].kind = "Method"
          /\ entities[kept[i][2]].kind = "Method"
    /\ Len(out.cells) > 0

\* C3: after alignment every surviving Use edge goes from a Method/Function to a
\* Field whose owner class is an ancestor of the source.
C3_UseOnlyOwnFields ==
    Aligned =>
        \A i \in DOMAIN kept :
            kept[i][3] = "Use" =>
                /\ entities[kept[i][1]].kind \in Methodish
                /\ entities[kept[i][2]].kind = "Field"
                /\ OwnerClassEntity(kept[i][2]) # None
                /\ OwnerClassEntity(kept[i][2]) \in AncestorsOf(kept[i][1])

\* C4: after alignment every surviving Call edge whose target is a constructor
\* hook has a source named __init__ or __new__, Method and Function alike.
C4_ConstructorCallsFromConstructors ==
    Aligned =>
        \A i \in DOMAIN kept :
            (/\ kept[i][3] = "Call"
             /\ entities[kept[i][2]].kind = "Method"
             /\ entities[kept[i][2]].name \in ConstructorNames)
                => entities[kept[i][1]].name \in ConstructorNames

\* C5: in every aligned matrix no two surviving edges share
\* (src-name, tgt-name, kind) and every kind count of every cell is 1.
C5_AlignedCountsAreOne ==
    (Emitted /\ cfg.align) =>
        /\ \A i, j \in DOMAIN full_edges : i # j => full_edges[i] # full_edges[j]
        /\ \A i \in DOMAIN out.cells :
              \A k \in DOMAIN out.cells[i].values : out.cells[i].values[k] = 1

\* two rows of distinct source entities mapped to one triple, and one cell came out
C5_Witness ==
    /\ Aligned
    /\ Len(kept) = 2
    /\ kept[1][1] # kept[2][1]
    /\ RunName(kept[1][1]) = RunName(kept[2][1])
    /\ kept[1][2] = kept[2][2]
    /\ kept[1][3] = kept[2][3]
    /\ Len(out.cells) = 1

CountEdges(edges, e) == Occurrences(edges, e)

\* the cells of the matrix whose endpoints are the names s and t
CellsFor(s, t) ==
    {i \in DOMAIN out.cells :
        /\ out.variables[out.cells[i].src + 1] = s
        /\ out.variables[out.cells[i].dest + 1] = t}

\* C6: the non-aligned assembler emits one cell per distinct (src, tgt) pair of
\* the edge list, and the cell's value for a kind is the number of input edges
\* (src, tgt, kind).
C6_CountAggregation ==
    pc = "assembled" =>
        \A s, t \in AsmNames :
            LET hits == CellsFor(s, t)
            IN  /\ Cardinality(hits) =
                      IF \E i \in DOMAIN edges_in : edges_in[i][1] = s /\ edges_in[i][2] = t
                      THEN 1 ELSE 0
                /\ \A i \in hits : \A k \in AsmKinds :
                      (IF k \in DOMAIN out.cells[i].values
                       THEN out.cells[i].values[k] ELSE 0)
                          = CountEdges(edges_in, <<s, t, k>>)

\* two Call edges and one Use edge X -> Y gave the single cell Call = 2, Use = 1
C6_Witness ==
    /\ pc = "assembled"
    /\ Len(edges_in) = 3
    /\ CountEdges(edges_in, <<"X", "Y", "Call">>) = 2
    /\ CountEdges(edges_in, <<"X", "Y", "Use">>) = 1
    /\ out.variables = <<"X", "Y">>
    /\ out.cells = <<[src |-> 0, dest |-> 1, values |-> [Call |-> 2, Use |-> 1]]>>

\* C7: in every emitted matrix each endpoint name of a surviving edge occurs in
\* `variables` exactly once, and each cell's src and dest index a position of
\* `variables`.
C7_NodesListedOnce ==
    Emitted =>
        /\ \A i \in DOMAIN full_edges :
              /\ Occurrences(out.variables, full_edges[i][1]) = 1
              /\ Occurrences(out.variables, full_edges[i][2]) = 1
        /\ \A i \in DOMAIN out.cells :
              /\ out.cells[i].src \in 0..(Len(out.variables) - 1)
              /\ out.cells[i].dest \in 0..(Len(out.variables) - 1)

\* a matrix of two cells in which one name is an endpoint of two edges
C7_Witness ==
    /\ Emitted
    /\ Len(full_edges) >= 2
    /\ \E i, j \in DOMAIN full_edges :
          /\ i # j
          /\ full_edges[i][1] = full_edges[j][1]
          /\ full_edges[i][2] # full_edges[j][2]
    /\ Len(out.cells) >= 2

\* C8: under the scheme of the run, distinct exported entities have distinct names.
C8_NamesInjective ==
    pc = "exported" =>
        \A a, b \in FocusEntityIds(cfg) :
            (a # b /\ ~Falsy(RunName(a)) /\ ~Falsy(RunName(b)))
                => RunName(a) # RunName(b)

-----------------------------------------------------------------------------
(* Properties of the class-folder map *)

Built == pc = "built"

FolderClassIds == FocusClassIds(FolderFocus)

\* the local bases of a class: the targets of its Extend rows that are other
\* in-focus classes of the same file
StatedLocalBases(c) ==
    {b \in FolderClassIds \ {c} :
        /\ AncestorFileId(b) = AncestorFileId(c)
        /\ \E i \in DOMAIN deps : deps[i] = <<c, b, "Extend">>}

\* the single local base of a class, None when it has none or several
StatedBase(c) ==
    IF Cardinality(StatedLocalBases(c)) = 1
    THEN CHOOSE b \in StatedLocalBases(c) : TRUE
    ELSE None

\* the one class a class's folder path is derived from: its enclosing class, else
\* its single local base, else none
FolderLink(c) ==
    IF NestedInClass(FolderClassIds, c) THEN entities[c].parent_id
    ELSE StatedBase(c)

\* does following the links from class cur lead to class c
RECURSIVE LeadsTo(_, _, _)
LeadsTo(cur, c, seen) ==
    IF cur = None \/ cur \in seen \/ cur \notin FolderClassIds THEN FALSE
    ELSE IF cur = c THEN TRUE
    ELSE LeadsTo(FolderLink(cur), c, seen \cup {cur})

OnLinkCycle(c) == LeadsTo(FolderLink(c), c, {})

\* C9: a class nested in a same-file class has the path of the enclosing class
\* followed by "inner_classes" and its own name, whatever Extend edges exist.
C9_NestingRoundTrip ==
    Built =>
        \A inner \in FolderClassIds :
            NestedInClass(FolderClassIds, inner) =>
                folders[inner] = folders[entities[inner].parent_id]
                                    \o <<"inner_classes", entities[inner].name>>

\* C10 as stated: a class that is not nested has the path of its base followed by
\* "subclasses" and its name when it has exactly one local base, and the root
\* path [name] when it has none or several.
C10_AsStated ==
    Built =>
        \A c \in FolderClassIds :
            ~NestedInClass(FolderClassIds, c) =>
                LET base == StatedBase(c)
                IN  IF base = None
                    THEN folders[c] = <<entities[c].name>>
                    ELSE folders[c] = folders[base] \o <<"subclasses", entities[c].name>>

\* C10 amended: a class that is not nested has the root path [name] when it has
\* no or several local bases; with exactly one local base it has the path of the
\* base followed by "subclasses" and its name, provided the chain of enclosing
\* classes and single local bases that starts at the base does not return to it.
C10_SubclassPlacement ==
    Built =>
        \A c \in FolderClassIds :
            ~NestedInClass(FolderClassIds, c) =>
                LET base == StatedBase(c)
                IN  IF base = None
                    THEN folders[c] = <<entities[c].name>>
                    ELSE ~OnLinkCycle(c) =>
                            folders[c] = folders[base]
                                            \o <<"subclasses", entities[c].name>>

\* a class with one local base was placed under a base that is itself placed
\* under another class
C10_Witness ==
    /\ Built
    /\ \E c \in FolderClassIds :
          LET base == StatedBase(c)
          IN  /\ ~NestedInClass(FolderClassIds, c)
              /\ base # None
              /\ ~OnLinkCycle(c)
              /\ Len(folders[base]) > 1
              /\ folders[c] = folders[base] \o <<"subclasses", entities[c].name>>

\* C11: the class-folder map is a function of the fact base alone: every order
\* in which the set of in-focus class ids is iterated gives the map of this run.
C11_FolderMapOrderIndependent ==
    Built =>
        \A order \in Orders(FolderClassIds) :
            BuildStructuredClassFolderMap(FolderFocus, deps, order) = folders

-----------------------------------------------------------------------------
(* Properties of the parent-chain walks *)

\* C12: the ancestor-file lookup, the owner-class lookup and the class-chain walk
\* return for every entity, also when the parent_id chain is self-referential
\* or cyclic.
C12_WalksReturn == [](walk.status = "running" => <>(walk.status = "returned"))

-----------------------------------------------------------------------------
(* Properties of the false-positive filter *)

Filtered == pc = "filtered"

\* the reasons under which the filter removed a row equal to dep
RemovedAs(dep) ==
    {fdb.removed[i][5] : i \in {j \in DOMAIN fdb.removed :
        <<fdb.removed[j][1], fdb.removed[j][2], fdb.removed[j][3], fdb.removed[j][4]>>
            = <<dep[1], dep[2], dep[3], dep[4]>>}}

IsEntity(id) == id \in DOMAIN entities

OnSpanBoundary(dep) ==
    dep[4] = entities[dep[1]].start_row \/ dep[4] = entities[dep[1]].end_row

\* the three artifacts as the specification words them
SiblingMethodArtifact(dep) ==
    /\ IsEntity(dep[1]) /\ IsEntity(dep[2])
    /\ entities[dep[1]].kind = "Method" /\ entities[dep[2]].kind = "Method"
    /\ entities[dep[1]].parent_id = entities[dep[2]].parent_id
    /\ OnSpanBoundary(dep)

ParentClassArtifact(dep) ==
    /\ IsEntity(dep[1]) /\ IsEntity(dep[2])
    /\ entities[dep[1]].kind = "Method" /\ entities[dep[2]].kind = "Class"
    /\ entities[dep[1]].parent_id = dep[2]
    /\ OnSpanBoundary(dep)

FieldToMethodArtifact(dep) ==
    /\ IsEntity(dep[1]) /\ IsEntity(dep[2])
    /\ entities[dep[1]].kind = "Field" /\ entities[dep[2]].kind = "Method"
    /\ entities[dep[1]].parent_id = entities[dep[2]].parent_id
    /\ OnSpanBoundary(dep)

ArtifactNames(dep) ==
    (IF SiblingMethodArtifact(dep) THEN {"sibling_method"} ELSE {})
    \cup (IF ParentClassArtifact(dep) THEN {"parent_class"} ELSE {})
    \cup (IF FieldToMethodArtifact(dep) THEN {"field_to_method"} ELSE {})

\* C13: an edge is classified sibling_method exactly when source and target are
\* Methods with the same parent_id and the edge's row is the source's start_row
\* or end_row, whatever the method's span and the edge's kind.
C13_SiblingMethodClassifier ==
    Filtered =>
        \A i \in DOMAIN deps :
            ("sibling_method" \in RemovedAs(deps[i])) <=> SiblingMethodArtifact(deps[i])

\* the one-line method at row 10: its edge to a sibling at row 10 was removed as
\* sibling_method, the same edge at row 12 was kept
C13_Witness ==
    /\ Filtered
    /\ deps = << <<"s1", "s2", "Call", 10>>, <<"s1", "s2", "Call", 12>> >>
    /\ fdb.removed = << <<"s1", "s2", "Call", 10, "sibling_method">> >>
    /\ fdb.deps = << <<"s1", "s2", "Call", 12>> >>

\* C14: at most one detector holds of an edge; the removed edges are exactly the
\* edges some detector holds of, each tagged with that detector's name, and all
\* other edges are kept.
C14_DetectorsPartition ==
    Filtered =>
        /\ \A i \in DOMAIN deps :
              /\ Cardinality(ArtifactNames(deps[i])) <= 1
              /\ RemovedAs(deps[i]) = ArtifactNames(deps[i])
              /\ (ArtifactNames(deps[i]) = {}
                    <=> \E j \in DOMAIN fdb.deps : fdb.deps[j] = deps[i])
        /\ Len(fdb.deps) + Len(fdb.removed) = Len(deps)

\* one edge was removed as parent_class and another edge was kept
C14_Witness ==
    /\ Filtered
    /\ Len(fdb.deps) = 1
    /\ Len(fdb.removed) = 1
    /\ fdb.removed[1][5] = "parent_class"

\* C15: a run of filter_dependencies leaves the input fact base as it was; the
\* output's entities and contents equal the input's and the output's deps rows
\* are rows of the input.
C15_FilterFrame ==
    [][(pc = "facts" /\ pc' = "filtered") =>
            /\ entities' = entities /\ deps' = deps /\ contents' = contents
            /\ fdb'.entities = entities
            /\ fdb'.contents = contents
            /\ \A i \in DOMAIN fdb'.deps : \E j \in DOMAIN deps : deps[j] = fdb'.deps[i]]_vars

\* a run that removed a row from the copy while the input kept both of its rows
C15_Witness ==
    /\ Filtered
    /\ Len(deps) = 2
    /\ Len(fdb.deps) = 1
    /\ fdb.entities = entities
    /\ fdb.contents = contents
    /\ contents # <<>>

-----------------------------------------------------------------------------
(* Properties of the pipeline *)

\* positions of the log of the current run at which an operation was started
LogOps(op) == {i \in DOMAIN run.log : run.log[i].op = op}

\* C16: whenever the false-positive filter runs it reads the engine's raw,
\* not yet enhanced fact base of this run; any enhancement of the run starts
\* after the filter has finished and is applied to the filter's output; the
\* filter never reads a database the enhancement has modified.
C16_FilterPrecedesEnhancement ==
    run.pc # "off" =>
        \A i \in LogOps("filter") :
            /\ run.log[i].read.exists
            /\ ~run.log[i].read.enhanced
            /\ run.log[i].read.deps = deps
            /\ \A j \in LogOps("enhance") :
                  /\ i < j
                  /\ ~run.log[j].read.enhanced
                  /\ run.log[j].read.deps = fdb.deps

\* a second run on the same directory filtered a row away and then enhanced
C16_Witness ==
    /\ run.pc = "enhanced"
    /\ run.runs = 2
    /\ LogOps("filter") # {}
    /\ fdb.removed # <<>>
    /\ Len(run.db.deps) > Len(fdb.deps)

-----------------------------------------------------------------------------
(* Properties of the exports on package initializers *)

\* a file named __init__.py, in whatever directory
IsInitializerFile(file_name) == RSplitLast(file_name, "/") = "__init__.py"

\* the entities of initializer files, the File entities included
InitializerIds ==
    {e \in DOMAIN entities :
        /\ AncestorFileId(e) # None
        /\ IsInitializerFile(entities[AncestorFileId(e)].name)}

\* a node name that stands for an entity of an initializer file: the name
\* lies under the file's path, or is the external label of such an entity
BelongsToInitializer(v) ==
    \E e \in InitializerIds :
        \/ StartsWith(v, entities[AncestorFileId(e)].name \o "/")
        \/ v = entities[AncestorFileId(e)].name
        \/ v = "(External " \o entities[e].kind \o ") " \o DisplayName(e)

NoInitializerNode(matrix) ==
    \A i \in DOMAIN matrix.variables : ~BelongsToInitializer(matrix.variables[i])

\* C17: in aligned mode no node of a file-level, full-project or per-file matrix
\* (hence no endpoint of an edge in it) belongs to a file named __init__.py.
C17_InitializersExcluded ==
    cfg.align =>
        /\ NoInitializerNode(out)
        /\ \A stem \in DOMAIN per_file : NoInitializerNode(per_file[stem])

-----------------------------------------------------------------------------
(* Properties of the node order *)

\* the arrangements of the rows of a deps table
RowOrders(dep_rows) ==
    {[i \in DOMAIN dep_rows |-> dep_rows[p[i]]] : p \in Orders(DOMAIN dep_rows)}

\* the orders in which the full-project export may iterate class_ids
ClassOrders(c) ==
    IF c.dv8_hierarchy = "structured" THEN Orders(FocusClassIds(FocusFileNames(c)))
    ELSE {<<>>}

-----------------------------------------------------------------------------
(* Properties of the sort keys *)

\* the entity of the table a listed node name stands for
EntityOfNode(v) == CHOOSE id \in DOMAIN entities : NodeName(id) = v

\* the type rank the order File-self < functions < Class-self < constructors <
\* methods < fields gives an entity
StatedRank(id) ==
    LET ent == entities[id]
    IN  IF ent.kind = "File" THEN 0
        ELSE IF ent.kind = "Function" THEN 1
        ELSE IF ent.kind = "Method" /\ entities[ent.parent_id].kind = "File" THEN 1
        ELSE IF ent.kind = "Class" THEN 2
        ELSE IF ent.kind = "Method" /\ ent.name \in {"__init__", "__new__"} THEN 3
        ELSE IF ent.kind = "Method" THEN 4
        ELSE 5

\* C19: after the reorder under any of the three schemes, the nodes of one
\* file stand in the order File-self, functions, Class-self, constructors,
\* methods, fields: no node of a higher rank precedes a node of a lower rank.
C19_TypeRankOrder ==
    pc = "sorted" =>
        \A i \in DOMAIN out.variables : \A j \in DOMAIN out.variables :
            i < j => StatedRank(EntityOfNode(out.variables[i]))
                        <= StatedRank(EntityOfNode(out.variables[j]))

-----------------------------------------------------------------------------
(* Properties of the handling of partial results *)

\* a row whose src or tgt id is not in the entities table
Malformed(row) == ~IsEntity(row[1]) \/ ~IsEntity(row[2])

\* the deps table without its malformed rows
WellFormedRows(table) == SelectSeq(table, LAMBDA row : ~Malformed(row))

\* the orders in which export_dv8_per_file may iterate the classes
AllClassOrders == Orders({e \in DOMAIN entities : entities[e].kind = "Class"})

\* C20: a row whose src or tgt id is no entity is never flagged by the filter
\* and adds no node and no cell to the full-project, file-level and per-file
\* matrices; the filter flags, and the exports emit, exactly what they would on
\* the table without the malformed rows.
C20_MalformedRowsSkipped ==
    LET clean == WellFormedRows(deps)
    IN  /\ pc = "filtered" =>
              /\ \A i \in DOMAIN fdb.removed :
                    IsEntity(fdb.removed[i][1]) /\ IsEntity(fdb.removed[i][2])
              /\ fdb.removed = FalsePositives(entities, clean)
              /\ WellFormedRows(fdb.deps) = DeleteRows(clean, fdb.removed)
        /\ pc = "exported" =>
              /\ \E order \in ClassOrders(cfg) : FullProjectMatrix(cfg, deps, order) = out
              /\ \A order \in ClassOrders(cfg) :
                    FullProjectMatrix(cfg, clean, order) = FullProjectMatrix(cfg, deps, order)
        /\ pc = "file_exported" =>
              /\ ExportDv8FileLevel(cfg, deps) = out
              /\ ExportDv8FileLevel(cfg, clean) = out
        /\ pc = "per_file_exported" =>
              /\ \E order \in AllClassOrders : ExportDv8PerFile(cfg, deps, order) = per_file
              /\ \A order \in AllClassOrders :
                    ExportDv8PerFile(cfg, clean, order) = ExportDv8PerFile(cfg, deps, order)

\* the filter ran on a table with a malformed row on a span boundary next to a
\* row it removed
C20_Witness ==
    /\ pc = "filtered"
    /\ \E i \in DOMAIN deps : Malformed(deps[i]) /\ deps[i] = <<"s1", "zz", "Call", 10>>
    /\ fdb.removed # <<>>
    /\ \E i \in DOMAIN fdb.deps : Malformed(fdb.deps[i])

-----------------------------------------------------------------------------
(* Members without an owning class *)

\* the parent chain of the entity reaches a File before any Class
RECURSIVE ReachesFileFirst(_)
ReachesFileFirst(id) ==
    LET p == entities[id].parent_id
    IN  IF p = None \/ p \notin DOMAIN entities THEN FALSE
        ELSE IF entities[p].kind = "File" THEN TRUE
        ELSE IF entities[p].kind = "Class" THEN FALSE
        ELSE ReachesFileFirst(p)

\* the Fields, and the Methods, that have no Class above them in their file
ClasslessFields ==
    {id \in DOMAIN entities : entities[id].kind = "Field" /\ ReachesFileFirst(id)}

ClasslessMethods ==
    {id \in DOMAIN entities : entities[id].kind = "Method" /\ ReachesFileFirst(id)}

\* the name of the file the entity lies in
FileOf(id) == entities[AncestorFileId(id)].name

\* the module-level Function name each scheme has for the entity
FunctionName(id, dv8_hierarchy) ==
    IF dv8_hierarchy = "structured"
    THEN FileOf(id) \o "/functions/" \o entities[id].name \o " (Function)"
    ELSE IF dv8_hierarchy = "flat"
    THEN FileOf(id) \o "/+FUNCTIONS/" \o entities[id].name \o " (Function)"
    ELSE FileOf(id) \o "/FUNCTIONS/" \o entities[id].name \o " (Function)"

\* the rows of the deps table that touch none of the given entities
RowsAvoiding(ids) == SelectSeq(deps, LAMBDA row : row[1] \notin ids /\ row[2] \notin ids)

\* what the export hands to the assembly when the entity-level loop sees only
\* the given rows: the file-level edges of all rows, then the entity-level edges
EdgesFromRows(rows) ==
    LET all == FileLevelEdges(cfg, deps)
               \o EntityEdges(cfg, FocusEntityIds(cfg), rows, folders,
                              FullProjectLocalBaseDotted(cfg))
    IN  IF cfg.align THEN SortedSetOfEdges(all) ELSE all

\* every scheme gives a class-less Field no name and a class-less Method its
\* Function name
ClasslessNames ==
    \A h \in Hierarchies :
        /\ \A f \in ClasslessFields :
              AlignedName(f, h, folders, FullProjectLocalBaseDotted(cfg)) = None
        /\ \A m \in ClasslessMethods :
              AlignedName(m, h, folders, FullProjectLocalBaseDotted(cfg)) = FunctionName(m, h)

\* C21 as stated: under every scheme a Field whose parent chain reaches a File
\* before any Class has no name, a class-less Method has its Function name, and
\* no entity-level edge of the full-project matrix comes from a row with such
\* a Field as source or target.
C21_AsStated ==
    /\ ClasslessNames
    /\ pc = "exported" => full_edges = EdgesFromRows(RowsAvoiding(ClasslessFields))

\* C21 (amended): the same, for the class-less Fields of in-focus files; a
\* class-less Field of a file out of focus is still listed as an external
\* target.
C21_ClasslessFieldsExcluded ==
    /\ ClasslessNames
    /\ pc = "exported" =>
          /\ full_edges = EdgesFromRows(RowsAvoiding(ClasslessFields \cap FocusEntityIds(cfg)))
          /\ \A f \in ClasslessFields \cap FocusEntityIds(cfg) :
                \A i \in DOMAIN out.variables :
                    /\ out.variables[i] # ExternalName(f)
                    /\ ~EndsWith(out.variables[i], entities[f].name \o " (Field)")

\* rows with an in-focus class-less Field as source and as target were exported
\* next to a row of a class-less Method, which is listed as a Function
C21_Witness ==
    /\ pc = "exported"
    /\ deps = << <<"am", "ag", "Use">>, <<"mo", "am", "Call">> >>
    /\ cfg.align
    /\ \E i \in DOMAIN out.variables : out.variables[i] = FunctionName("mo", cfg.dv8_hierarchy)
    /\ Len(kept) = 1

-----------------------------------------------------------------------------
(* Repeated runs and self-extension *)

\* C22: a second run of the full-project export on the same fact base under the
\* same configuration writes the same variables and the same cells, whatever
\* order the second process iterates its sets in.
C22_RerunIdentical ==
    pc = "exported" =>
        \A order \in ClassOrders(cfg) : FullProjectMatrix(cfg, deps, order) = out

\* the same-file classes other than itself that a class extends
OtherLocalBases(c) ==
    {deps[i][2] : i \in {j \in DOMAIN deps :
        /\ deps[j][3] = "Extend"
        /\ deps[j][1] = c
        /\ deps[j][2] # c
        /\ deps[j][2] \in FocusClassIds(FocusFileNames(cfg))
        /\ AncestorFileId(deps[j][2]) = AncestorFileId(c)}}

\* the class has an Extend row to itself
SelfExtends(c) == \E i \in DOMAIN deps : deps[i] = <<c, c, "Extend">>

\* the flat name of a class with self-extension left out of its local bases
StatedFlatClassName(c) ==
    LET file_name == entities[AncestorFileId(c)].name
        others    == OtherLocalBases(c)
    IN  IF Cardinality(others) = 1
        THEN file_name \o "/+SUBCLASSES/" \o DottedName(CHOOSE b \in others : TRUE)
             \o "/-self " \o DottedName(c) \o " (Class)"
        ELSE file_name \o "/-self " \o DottedName(c) \o " (Class)"

\* C24: under the flat scheme a class that extends itself is named as if the
\* self-Extend row were absent: as a root class when it extends no other
\* same-file class, under its one other same-file base when it has one; no
\* listed class node lies under +SUBCLASSES/ of the class itself.
C24_FlatSelfExtensionExcluded ==
    (pc = "exported" /\ cfg.dv8_hierarchy = "flat") =>
        \A c \in FocusClassIds(FocusFileNames(cfg)) :
            SelfExtends(c) =>
                /\ FlatName(c, FullProjectLocalBaseDotted(cfg)) = StatedFlatClassName(c)
                /\ \A i \in DOMAIN out.variables :
                      out.variables[i] # entities[AncestorFileId(c)].name \o "/+SUBCLASSES/"
                                          \o DottedName(c) \o "/-self " \o DottedName(c)
                                          \o " (Class)"

-----------------------------------------------------------------------------
(* Properties of the cell list *)

\* C23: in every emitted matrix, reordered or not, each cell is strictly above
\* its predecessor in (source-index, destination-index) order, and no two cells
\* have the same (source-index, destination-index) pair.
C23_CellsAscending ==
    pc \in {"assembled", "reordered"} =>
        /\ \A i \in 1..(Len(out.cells) - 1) :
              \/ out.cells[i].src < out.cells[i + 1].src
              \/ /\ out.cells[i].src = out.cells[i + 1].src
                 /\ out.cells[i].dest < out.cells[i + 1].dest
        /\ \A i, j \in DOMAIN out.cells :
              (out.cells[i].src = out.cells[j].src /\ out.cells[i].dest = out.cells[j].dest)
                  => i = j

\* two opposite edges were written whose first-seen node order is the reverse
\* of the sorted one, so that the remapped cells had to be sorted again
C23_Witness ==
    /\ pc = "reordered"
    /\ edges_in = << <<"main.py/self (File)", "pkg/a.py/self (File)", "Call">>,
                     <<"pkg/a.py/self (File)", "main.py/self (File)", "Use">> >>
    /\ out.variables = <<"pkg/a.py/self (File)", "main.py/self (File)">>
    /\ out.cells = << [src |-> 0, dest |-> 1, values |-> [Use |-> 1]],
                      [src |-> 1, dest |-> 0, values |-> [Call |-> 1]] >>

\* the (source name, destination name, values) triples the cells of a matrix denote
Triples(matrix) ==
    {<<matrix.variables[matrix.cells[i].src + 1], matrix.variables[matrix.cells[i].dest + 1],
       matrix.cells[i].values>> : i \in DOMAIN matrix.cells}

\* C29: reordering returns a permutation of the input `variables`, and the
\* cells denote the same (variables[src], variables[dest], values) triples
\* before and after.
C29_ReorderPreservesMatrix ==
    pc = "reordered" =>
        LET before == Dv8BuildDependencyJson(edges_in)
        IN  /\ Len(out.variables) = Len(before.variables)
            /\ \A v \in ReorderNames :
                  Occurrences(out.variables, v) = Occurrences(before.variables, v)
            /\ Len(out.cells) = Len(before.cells)
            /\ Triples(out) = Triples(before)

\* a matrix of three nodes was reordered and its node list changed
C29_Witness ==
    /\ pc = "reordered"
    /\ Len(out.variables) = 3
    /\ Len(out.cells) = 2
    /\ out.variables # Dv8BuildDependencyJson(edges_in).variables

-----------------------------------------------------------------------------
(* The class-folder map on inheritance cycles *)

\* the names of the classes in focus
FolderClassNames == {entities[c].name : c \in FolderClassIds}

\* C25: the class-folder builder returns for every Extend graph, cycles of
\* local inheritance included, and its map gives every in-focus class a
\* non-empty path that ends in the class's own name; the path starts at a bare
\* class name (where a class met again while in progress cut the walk), links
\* and class names alternate, and no path is longer than a walk that enters
\* every class once and one class a second time.
C25_FolderMapTotal ==
    Built =>
        /\ DOMAIN folders = FolderClassIds
        /\ \A c \in FolderClassIds :
              LET path == folders[c]
              IN  /\ path # <<>>
                  /\ path[Len(path)] = entities[c].name
                  /\ Len(path) <= 2 * Cardinality(FolderClassIds) + 1
                  /\ \A i \in DOMAIN path :
                        IF i % 2 = 1 THEN path[i] \in FolderClassNames
                        ELSE path[i] \in {"inner_classes", "subclasses"}

\* the map was built for two classes that extend each other: one of them was
\* met again while in progress and heads its own path with its bare name
C25_Witness ==
    /\ Built
    /\ \E a, b \in FolderClassIds :
          /\ a # b
          /\ \E i, j \in DOMAIN deps :
                deps[i] = <<a, b, "Extend">> /\ deps[j] = <<b, a, "Extend">>
          /\ folders[a] = <<entities[a].name, "subclasses", entities[b].name,
                            "subclasses", entities[a].name>>

-----------------------------------------------------------------------------
(* Nested helpers *)

\* the nearest entity above `cur` that is not a Method/Function with the
\* entity's own name (such parents are duplicate tags), None when there is none
RECURSIVE EnclosingEntity(_, _)
EnclosingEntity(id, cur) ==
    LET p == entities[cur].parent_id
    IN  IF p = None \/ p \notin DOMAIN entities THEN None
        ELSE IF entities[p].kind \in {"Method", "Function"} /\ entities[p].name = entities[id].name
             THEN EnclosingEntity(id, p)
        ELSE p

\* a Method/Function defined inside another Method/Function
NestedHelper(id) ==
    /\ entities[id].kind \in {"Method", "Function"}
    /\ EnclosingEntity(id, id) # None
    /\ entities[EnclosingEntity(id, id)].kind \in {"Method", "Function"}

\* a Method/Function parented by a same-named Method/Function whose chain of
\* such parents ends at a Class or File
DuplicateTag(id) ==
    /\ entities[id].kind \in {"Method", "Function"}
    /\ entities[entities[id].parent_id].kind \in {"Method", "Function"}
    /\ entities[entities[id].parent_id].name = entities[id].name
    /\ ~NestedHelper(id)

\* C26: in the aligned full-project export no row whose source is a nested
\* helper reaches the edge list, and no cell has the node of a nested helper as
\* its source; a row from a duplicate tag (a Method under same-named Methods
\* only) is kept like the row from the original.
C26_NestedHelperSourcesDropped ==
    (pc = "exported" /\ cfg.align) =>
        /\ \A i \in DOMAIN kept : ~NestedHelper(kept[i][1])
        /\ \A i \in DOMAIN out.cells : \A h \in DOMAIN entities :
              NestedHelper(h) =>
                  out.variables[out.cells[i].src + 1]
                      # AlignedName(h, cfg.dv8_hierarchy, folders, FullProjectLocalBaseDotted(cfg))
        /\ \A i \in DOMAIN deps :
              (DuplicateTag(deps[i][1]) /\ deps[i][1] \in FocusEntityIds(cfg))
                  => \E j \in DOMAIN kept : kept[j] = deps[i]

\* an aligned export of a row from a helper nested in m and the same row from
\* the duplicate tag of m kept only the latter
C26_Witness ==
    /\ pc = "exported"
    /\ cfg.align
    /\ deps = << <<"ah", "ax", "Use">>, <<"ad", "ax", "Use">> >>
    /\ kept = << <<"ad", "ax", "Use">> >>
    /\ Len(out.cells) = 1

-----------------------------------------------------------------------------
(* Names of module-level functions *)

\* a function defined at module level: a Function, or a Method, parented by a File
ModuleFunction(id) ==
    /\ entities[id].kind \in {"Function", "Method"}
    /\ entities[id].parent_id \in DOMAIN entities
    /\ entities[entities[id].parent_id].kind = "File"

\* C27: under the flat scheme the node listed for a module-level function is
\* <file>/+FUNCTIONS/<fn> (Function), under the legacy (handcount) scheme
\* <file>/FUNCTIONS/<fn> (Function), whether the fact base tags the function
\* as Function or as Method parented by the File.
C27_ModuleFunctionNames ==
    cfg.dv8_hierarchy \in {"flat", "handcount"} =>
        \A i \in DOMAIN out.variables :
            LET id == EntityOfNode(out.variables[i])
            IN  ModuleFunction(id) => out.variables[i] = FunctionName(id, cfg.dv8_hierarchy)

-----------------------------------------------------------------------------
(* Aligned exports and external nodes *)

\* the node stands for an entity or file outside the exported scope
ExternalNode(v) == StartsWith(v, "(External ")

\* C28: no aligned export lists an external node, whatever the
\* include-external-targets setting: not the full-project matrix, not the
\* file-level matrix, not any per-file matrix.
C28_AlignedInternalOnly ==
    cfg.align =>
        /\ pc \in {"exported", "file_exported"} =>
              \A i \in DOMAIN out.variables : ~ExternalNode(out.variables[i])
        /\ pc = "per_file_exported" =>
              \A stem \in DOMAIN per_file : \A i \in DOMAIN per_file[stem].variables :
                  ~ExternalNode(per_file[stem].variables[i])

-----------------------------------------------------------------------------
(* C30: the two aligned exports and the edges inside one file *)

\* whether export_dv8_full_project, under the configuration of the state, turns
\* the row into an entity-level edge when the row is all the deps table holds
FullProjectKeeps(row, order) ==
    LET focus == FocusFileNames(cfg)
        class_folders == IF cfg.dv8_hierarchy = "structured"
                         THEN BuildStructuredClassFolderMap(focus, <<row>>, order)
                         ELSE NoMap
        local_base_dotted == IF cfg.dv8_hierarchy = "flat"
                             THEN BuildLocalBaseDottedMap(focus, <<row>>)
                             ELSE NoMap
    IN  EntityEdge(cfg, FocusEntityIds(cfg), row, class_folders, local_base_dotted) # <<>>

\* C30: for every edge whose source and target both lie in one in-focus file,
\* the aligned per-file export keeps it if and only if the aligned full-project
\* export keeps it.
C30_SameAlignmentFilter ==
    (pc = "per_file_exported" /\ cfg.align /\ Len(deps) = 1) =>
        \A file_id \in {e \in DOMAIN entities : entities[e].kind = "File"} :
            LET file_name == entities[file_id].name
                row == deps[1]
            IN  ( /\ InFocus(cfg, file_name)
                  /\ PerFileSelected(cfg, file_name)
                  /\ {row[1], row[2]} \subseteq Descendants(file_id) ) =>
                    \A order \in ClassOrders(cfg) :
                        (per_file[Stem(file_name)].cells # <<>>)
                            <=> FullProjectKeeps(row, order)

====
